---- MODULE Spec2Model ----
(***************************************************************************)
(* libre-vtt: serverless session formation (invite handshake, mesh        *)
(* introduction relayed by the GM) and replication of the board document  *)
(* between the GM (host) and the players (guests).                        *)
(*                                                                         *)
(* Sources: src/communication.js (CommunicationManager),                  *)
(*          src/board-interactive.js (BoardState, EventHandler, Board),   *)
(*          src/unnamed/part_000 lines 600-1440 (main: session, UI glue), *)
(*          src/README.md lines 229-379 (WebRTCManager).                  *)
(***************************************************************************)
EXTENDS Integers, Sequences, FiniteSets, TLC

(***************************************************************************)
(* Participants and identifiers                                            *)
(***************************************************************************)
GM == "gm"
Guests == {"g1", "g2"}
Participants == {GM} \cup Guests
InviteIds == {"inv1", "inv2"}

\* null / undefined
Null == "null"

\* `token_${peerId}`
PlayerTokenId(p) ==
  CASE p = "g1" -> "token_g1"
    [] p = "g2" -> "token_g2"
    [] OTHER    -> "token_gm"

\* `token_${Math.random()...}`: ids of NPC tokens, handed out in order
NpcIds == <<"token_n1", "token_n2">>
\* ids a request can name: the existing token ids and one that never exists
TokenIds == {"token_n1", "token_n2", "token_g1", "token_g2", "token_zz"}
PlayerLayerId == "layer_p"
LayerIds == {PlayerLayerId, "layer_zz"}
Colors == {"purple", "red"}

\* Bounds of the exploration
MaxOps == 2
MaxConnEvents == 1
MaxEvents == 4

(***************************************************************************)
(* Sequence helpers (Array.prototype.filter / find / some / map)           *)
(***************************************************************************)
SeqFilter(s, keep(_)) == SelectSeq(s, keep)

\* index of the first element satisfying test, 0 when there is none
FindIdx(s, test(_)) ==
  IF \E i \in DOMAIN s : test(s[i])
  THEN CHOOSE i \in DOMAIN s : test(s[i]) /\ \A j \in 1..(i - 1) : ~test(s[j])
  ELSE 0

Range(s) == {s[i] : i \in DOMAIN s}

(***************************************************************************)
(* Board document: layers of tokens                                        *)
(*   layer: {id, name, visible, background, tokens}; oid is the identity   *)
(*   of the JavaScript object (0 for an object parsed from a message)      *)
(*   token: {id, x, y, color, peerId}                                      *)
(***************************************************************************)
NoBg == [url |-> Null, x |-> 0, y |-> 0, scale |-> 0]

Token(id, x, y, color, owner) ==
  [id |-> id, x |-> x, y |-> y, color |-> color, peerId |-> owner]

Layer(oid, id, name, tokens) ==
  [oid |-> oid, id |-> id, name |-> name, visible |-> TRUE,
   background |-> NoBg, tokens |-> tokens]

\* session.vtt of part_000:652-661: one layer named 'Player Layer', no tokens
InitialLayers == << Layer(1, PlayerLayerId, "Player Layer", <<>>) >>

\* BoardState.findLayer: this.layers.find(l => l.id === layerId)
findLayer(layers, layerId) == FindIdx(layers, LAMBDA l : l.id = layerId)

\* BoardState.findToken: <<layer index, token index>>, <<0, 0>> when undefined
findToken(layers, layerId, tokenId) ==
  LET li == findLayer(layers, layerId) IN
  IF li = 0 THEN <<0, 0>>
  ELSE LET ti == FindIdx(layers[li].tokens, LAMBDA t : t.id = tokenId) IN
       IF ti = 0 THEN <<0, 0>> ELSE <<li, ti>>

hasToken(layers, layerId, tokenId) == findToken(layers, layerId, tokenId) # <<0, 0>>

\* variant that pushes the token whenever the layer exists
addTokenNoCheck(layers, layerId, tokenData) ==
  LET li == findLayer(layers, layerId) IN
  IF li # 0
  THEN [layers EXCEPT ![li].tokens = Append(@, tokenData)]
  ELSE layers

\* BoardState.addToken
addToken(layers, layerId, tokenData) ==
  LET li == findLayer(layers, layerId) IN
  IF li # 0 /\ ~(\E i \in DOMAIN layers[li].tokens : layers[li].tokens[i].id = tokenData.id)
  THEN [layers EXCEPT ![li].tokens = Append(@, tokenData)]
  ELSE layers

\* BoardState.removeToken
removeToken(layers, layerId, tokenId) ==
  LET li == findLayer(layers, layerId) IN
  IF li # 0
  THEN [layers EXCEPT ![li].tokens = SeqFilter(@, LAMBDA t : t.id # tokenId)]
  ELSE layers

\* one entry of a token-ownership-changed batch
Change(layerId, tokenId, newOwner) ==
  [layerId |-> layerId, tokenId |-> tokenId, newOwner |-> newOwner]

\* variant that releases a token its new owner already holds
setOwnerToggle(layers, change) ==
  LET f == findToken(layers, change.layerId, change.tokenId) IN
  IF f # <<0, 0>>
  THEN [layers EXCEPT ![f[1]].tokens[f[2]].peerId =
          IF @ = change.newOwner THEN Null ELSE change.newOwner]
  ELSE layers

\* token.peerId = change.newOwner, when the token exists
setOwner(layers, change) ==
  LET f == findToken(layers, change.layerId, change.tokenId) IN
  IF f # <<0, 0>>
  THEN [layers EXCEPT ![f[1]].tokens[f[2]].peerId = change.newOwner]
  ELSE layers

\* event.changes.forEach(change => ...)
RECURSIVE applyChanges(_, _)
applyChanges(layers, changes) ==
  IF changes = <<>> THEN layers
  ELSE applyChanges(setOwner(layers, Head(changes)), Tail(changes))

\* all tokens of the document, in layer order (layers.flatMap(l => l.tokens))
RECURSIVE allTokens(_)
allTokens(layers) ==
  IF layers = <<>> THEN <<>> ELSE Head(layers).tokens \o allTokens(Tail(layers))

\* the changes {layerId, tokenId, newOwner: null} for every token owned by
\* peerId (layers.forEach(l => l.tokens.forEach(t => ...)))
RECURSIVE ownedChanges(_, _, _)
ownedChanges(layers, peerId, skipId) ==
  IF layers = <<>> THEN <<>>
  ELSE LET l == Head(layers)
           own == SeqFilter(l.tokens, LAMBDA t : t.peerId = peerId /\ t.id # skipId)
       IN [i \in DOMAIN own |-> Change(l.id, own[i].id, Null)]
          \o ownedChanges(Tail(layers), peerId, skipId)

(***************************************************************************)
(* Links (WebRTCManager objects) and session descriptions                  *)
(***************************************************************************)
NoLink == <<Null, Null>>
\* the template link of _generateAndSendP2POffer: new WebRTCManager('p2p-offer-template')
Template == "p2p-offer-template"

HostLink(inv) == <<GM, inv>>
\* a link is named by its owner and the key (or purpose) it was created for
LinkIds == {<<p, k>> : p \in Participants, k \in Participants \cup InviteIds \cup {Template}}

Owner(l) == l[1]

\* an offer or answer names the link whose local description it is
Desc(kind, link) == [kind |-> kind, link |-> link]
NoDesc == Desc(Null, NoLink)

NoLinkState ==
  [sig |-> "none", remote |-> NoLink, chan |-> "none", conn |-> "new", handler |-> Null]

\* keys of session.peers: participant ids and invite ids
Keys == Participants \cup InviteIds

(***************************************************************************)
(* Messages: JSON objects with a required type                             *)
(***************************************************************************)
NoToken == Token(Null, 0, 0, Null, Null)
NoLayer == [oid |-> 0, id |-> Null, name |-> Null, visible |-> FALSE,
            background |-> NoBg, tokens |-> <<>>]

Msg(type) ==
  [type |-> type, layerId |-> Null, tokenId |-> Null, x |-> 0, y |-> 0,
   color |-> Null, tokenData |-> NoToken, changes |-> <<>>,
   removedTokenId |-> Null, layers |-> <<>>, layer |-> NoLayer,
   name |-> Null, visible |-> FALSE, background |-> NoBg, scale |-> 0,
   offers |-> <<>>, offer |-> NoDesc, answer |-> NoDesc,
   to |-> Null, from |-> Null, inviteId |-> Null]
NoMsg == Msg(Null)

GameStateUpdate(layers) == [Msg("game-state-update") EXCEPT !.layers = layers]
TokenMoved(layerId, tokenId, x, y) ==
  [Msg("token-moved") EXCEPT !.layerId = layerId, !.tokenId = tokenId, !.x = x, !.y = y]
TokenAdded(layerId, tokenData) ==
  [Msg("token-added") EXCEPT !.layerId = layerId, !.tokenData = tokenData]
TokenDeleted(layerId, tokenId) ==
  [Msg("token-deleted") EXCEPT !.layerId = layerId, !.tokenId = tokenId]
TokenPropertyChanged(layerId, tokenId, color) ==
  [Msg("token-property-changed") EXCEPT !.layerId = layerId, !.tokenId = tokenId, !.color = color]
TokenOwnershipChanged(changes) ==
  [Msg("token-ownership-changed") EXCEPT !.changes = changes]
PlayerDisconnectedUpdate(removedTokenId, unclaimedTokens) ==
  [Msg("player-disconnected-update") EXCEPT
     !.removedTokenId = removedTokenId, !.changes = unclaimedTokens]
LayerAdded(layer) == [Msg("layer-added") EXCEPT !.layer = layer]
LayerDeleted(layerId) == [Msg("layer-deleted") EXCEPT !.layerId = layerId]
LayerVisibilityChanged(layerId, visible) ==
  [Msg("layer-visibility-changed") EXCEPT !.layerId = layerId, !.visible = visible]
LayerRenamed(layerId, name) ==
  [Msg("layer-renamed") EXCEPT !.layerId = layerId, !.name = name]
LayerBackgroundChanged(layerId, background) ==
  [Msg("layer-background-changed") EXCEPT !.layerId = layerId, !.background = background]
LayerBackgroundCleared(layerId) ==
  [Msg("layer-background-cleared") EXCEPT !.layerId = layerId]
LayerBackgroundScaled(layerId, scale) ==
  [Msg("layer-background-scaled") EXCEPT !.layerId = layerId, !.scale = scale]
LayerBackgroundMoved(layerId, x, y) ==
  [Msg("layer-background-moved") EXCEPT !.layerId = layerId, !.x = x, !.y = y]
Ping(x, y) == [Msg("ping") EXCEPT !.x = x, !.y = y]

TokenMoveRequest(layerId, tokenId, x, y) ==
  [Msg("token-move-request") EXCEPT !.layerId = layerId, !.tokenId = tokenId, !.x = x, !.y = y]
ClaimTokenRequest(layerId, tokenId) ==
  [Msg("claim-token-request") EXCEPT !.layerId = layerId, !.tokenId = tokenId]
UnclaimTokenRequest(layerId, tokenId) ==
  [Msg("unclaim-token-request") EXCEPT !.layerId = layerId, !.tokenId = tokenId]
TokenColorChangeRequest(layerId, tokenId, color) ==
  [Msg("token-color-change-request") EXCEPT !.layerId = layerId, !.tokenId = tokenId, !.color = color]

RequestP2POffer == Msg("request-p2p-offer")
P2POffer(offer) == [Msg("p2p-offer") EXCEPT !.offer = offer]
P2POfferList(offers) == [Msg("p2p-offer-list") EXCEPT !.offers = offers]
P2PAnswer(to, from, answer) ==
  [Msg("p2p-answer") EXCEPT !.to = to, !.from = from, !.answer = answer]

\* the event kinds that _handleMessage passes to EventHandler.handleEvent
StateEventTypes ==
  {"game-state-update", "token-moved", "token-deleted", "token-added",
   "token-property-changed", "token-ownership-changed",
   "player-disconnected-update", "layer-added", "layer-deleted",
   "layer-visibility-changed", "layer-renamed", "layer-background-changed",
   "layer-background-cleared", "layer-background-scaled",
   "layer-background-moved", "ping"}

RequestTypes ==
  {"token-move-request", "claim-token-request", "unclaim-token-request",
   "token-color-change-request"}

\* JSON.stringify / JSON.parse across the data channel: the receiver gets
\* fresh objects, so the identity of the sender's layer objects is lost
StripOids(layers) == [i \in DOMAIN layers |-> [layers[i] EXCEPT !.oid = 0]]
WireCopy(msg) ==
  [msg EXCEPT !.layers = StripOids(@), !.layer = [@ EXCEPT !.oid = 0]]

(***************************************************************************)
(* EventHandler.handleEvent: the reducer                                   *)
(***************************************************************************)
setLayerField(layers, layerId, upd(_)) ==
  LET li == findLayer(layers, layerId) IN
  IF li # 0 THEN [layers EXCEPT ![li] = upd(@)] ELSE layers

handleEvent(layers, event) ==
  CASE event.type = "game-state-update" -> event.layers
    [] event.type = "token-moved" ->
         LET f == findToken(layers, event.layerId, event.tokenId) IN
         IF f # <<0, 0>>
         THEN [layers EXCEPT ![f[1]].tokens[f[2]].x = event.x,
                             ![f[1]].tokens[f[2]].y = event.y]
         ELSE layers
    [] event.type = "token-deleted" -> removeToken(layers, event.layerId, event.tokenId)
    [] event.type = "token-added" -> addToken(layers, event.layerId, event.tokenData)
    [] event.type = "token-property-changed" ->
         LET f == findToken(layers, event.layerId, event.tokenId) IN
         IF f # <<0, 0>>
         THEN [layers EXCEPT ![f[1]].tokens[f[2]].color = event.color]
         ELSE layers
    [] event.type = "token-ownership-changed" -> applyChanges(layers, event.changes)
    [] event.type = "player-disconnected-update" ->
         LET removed == [i \in DOMAIN layers |->
                           [layers[i] EXCEPT !.tokens =
                              SeqFilter(@, LAMBDA t : t.id # event.removedTokenId)]]
         IN applyChanges(removed,
              [i \in DOMAIN event.changes |->
                 Change(event.changes[i].layerId, event.changes[i].tokenId, Null)])
    [] event.type = "layer-added" -> Append(layers, event.layer)
    [] event.type = "layer-deleted" -> SeqFilter(layers, LAMBDA l : l.id # event.layerId)
    [] event.type = "layer-visibility-changed" ->
         setLayerField(layers, event.layerId, LAMBDA l : [l EXCEPT !.visible = event.visible])
    [] event.type = "layer-renamed" ->
         setLayerField(layers, event.layerId, LAMBDA l : [l EXCEPT !.name = event.name])
    [] event.type = "layer-background-changed" ->
         setLayerField(layers, event.layerId, LAMBDA l : [l EXCEPT !.background = event.background])
    [] event.type = "layer-background-cleared" ->
         setLayerField(layers, event.layerId, LAMBDA l : [l EXCEPT !.background = NoBg])
    [] event.type = "layer-background-scaled" ->
         setLayerField(layers, event.layerId,
           LAMBDA l : IF l.background # NoBg
                      THEN [l EXCEPT !.background.scale = event.scale] ELSE l)
    [] event.type = "layer-background-moved" ->
         setLayerField(layers, event.layerId,
           LAMBDA l : IF l.background # NoBg
                      THEN [l EXCEPT !.background.x = event.x, !.background.y = event.y]
                      ELSE l)
    [] OTHER -> layers

\* A TypeError is raised where handleEvent reads or writes a property of
\* undefined or null. Each access is written as: the guards of the code let
\* the access happen, and its receiver is undefined or null.
\* Variant whose background accesses are guarded by the layer alone.
ThrowsUnguardedBackground(layers, event) ==
  LET li == findLayer(layers, event.layerId)
      f == findToken(layers, event.layerId, event.tokenId)
  IN CASE event.type \in {"token-moved", "token-property-changed"} ->
            f # <<0, 0>> /\ f = <<0, 0>>
       [] event.type \in {"layer-visibility-changed", "layer-renamed",
                          "layer-background-changed", "layer-background-cleared"} ->
            li # 0 /\ li = 0
       [] event.type \in {"layer-background-scaled", "layer-background-moved"} ->
            li # 0 /\ layers[li].background = NoBg
       [] event.type \in {"token-ownership-changed", "player-disconnected-update"} ->
            \E i \in DOMAIN event.changes :
              LET t == findToken(layers, event.changes[i].layerId, event.changes[i].tokenId)
              IN t # <<0, 0>> /\ t = <<0, 0>>
       [] OTHER -> FALSE

Throws(layers, event) ==
  LET li == findLayer(layers, event.layerId)
      f == findToken(layers, event.layerId, event.tokenId)
  IN CASE event.type \in {"token-moved", "token-property-changed"} ->
            \* if (tokenToMove) { tokenToMove.x = ... }
            f # <<0, 0>> /\ f = <<0, 0>>
       [] event.type \in {"layer-visibility-changed", "layer-renamed",
                          "layer-background-changed", "layer-background-cleared"} ->
            \* if (layerToToggle) { layerToToggle.visible = ... }
            li # 0 /\ li = 0
       [] event.type \in {"layer-background-scaled", "layer-background-moved"} ->
            \* if (layerToScaleBg && layerToScaleBg.background) { ...background.scale = ... }
            (li # 0 /\ layers[li].background # NoBg) /\ layers[li].background = NoBg
       [] event.type \in {"token-ownership-changed", "player-disconnected-update"} ->
            \* if (token) { token.peerId = ... }
            \E i \in DOMAIN event.changes :
              LET t == findToken(layers, event.changes[i].layerId, event.changes[i].tokenId)
              IN t # <<0, 0>> /\ t = <<0, 0>>
       [] OTHER -> FALSE

(***************************************************************************)
(* Proximity audio: updateDistanceBasedAudio                               *)
(***************************************************************************)
\* JavaScript numbers as exact fractions n/d in lowest terms (d > 0); the
\* rounding of IEEE doubles is not modelled
RECURSIVE GCD(_, _)
GCD(a, b) == IF b = 0 THEN a ELSE GCD(b, a % b)
Abs(a) == IF a < 0 THEN 0 - a ELSE a
LCM(a, b) == (a \div GCD(a, b)) * b

Rat(n, d) == LET g == GCD(Abs(n), d) IN [n |-> n \div g, d |-> d \div g]
\* a + b, a - b, a * b, a / b (b > 0), a <= b, a < b
RAdd(a, b) == LET l == LCM(a.d, b.d) IN Rat(a.n * (l \div a.d) + b.n * (l \div b.d), l)
RSub(a, b) == LET l == LCM(a.d, b.d) IN Rat(a.n * (l \div a.d) - b.n * (l \div b.d), l)
RMul(a, b) ==
  LET g1 == GCD(Abs(a.n), b.d)
      g2 == GCD(Abs(b.n), a.d)
  IN Rat((a.n \div g1) * (b.n \div g2), (a.d \div g2) * (b.d \div g1))
RDiv(a, b) == RMul(a, [n |-> b.d, d |-> b.n])
RLeq(a, b) == LET l == LCM(a.d, b.d) IN a.n * (l \div a.d) <= b.n * (l \div b.d)
RLess(a, b) == RLeq(a, b) /\ a # b

Zero == Rat(0, 1)
One == Rat(1, 1)
\* session.peerVolumes.get(peerId) of a peer whose slider was never moved
NoVolume == [n |-> 0 - 1, d |-> 1]

minDistance == 40
maxDistance == 1200
minVolume == Rat(5, 100)

\* findTokenForPeer / allTokens.find(t => t.peerId === peerId): the first
\* token of the flattened layers owned by peerId, NoToken when undefined
RECURSIVE findTokenIn(_, _, _, _)
findTokenIn(board, peerId, i, j) ==
  IF i > Len(board) THEN NoToken
  ELSE IF j > Len(board[i].tokens) THEN findTokenIn(board, peerId, i + 1, 1)
  ELSE IF board[i].tokens[j].peerId = peerId THEN board[i].tokens[j]
  ELSE findTokenIn(board, peerId, i, j + 1)
findTokenForPeer(board, peerId) == findTokenIn(board, peerId, 1, 1)

\* distance * distance for distance = Math.hypot(dx, dy)
distanceSq(a, b) == (a.x - b.x) * (a.x - b.x) + (a.y - b.y) * (a.y - b.y)

\* volumeRatio: 1 up to minDistance, 0 from maxDistance on, normalised
\* inverse-square falloff in between
volumeRatio(sq) ==
  IF sq <= minDistance * minDistance THEN One
  ELSE IF sq < maxDistance * maxDistance
  THEN LET invSqrDist == Rat(1, sq)
           invSqrMin == Rat(1, minDistance * minDistance)
           invSqrMax == Rat(1, maxDistance * maxDistance)
       IN RDiv(RSub(invSqrDist, invSqrMax), RSub(invSqrMin, invSqrMax))
  ELSE Zero

\* variant with no floor under the volume
finalVolumeNoFloor(sq, maxVolume) == RMul(maxVolume, volumeRatio(sq))

\* finalVolume = minVolume + (maxVolume - minVolume) * volumeRatio
finalVolume(sq, maxVolume) ==
  RAdd(minVolume, RMul(RSub(maxVolume, minVolume), volumeRatio(sq)))

\* session.peerVolumes.get(peerId) ?? 1
maxVolumeOf(peerVolumes, peerId) ==
  IF peerVolumes[peerId] = NoVolume THEN One ELSE peerVolumes[peerId]

\* variant that applies the distance formula whether or not the tokens exist
volumeOfAlwaysByDistance(board, myId, peerId, peerVolumes) ==
  finalVolume(distanceSq(findTokenForPeer(board, myId), findTokenForPeer(board, peerId)),
              maxVolumeOf(peerVolumes, peerId))

\* audioEl.volume that updateDistanceBasedAudio gives to the element of peerId
volumeOf(board, myId, peerId, peerVolumes) ==
  LET myToken == findTokenForPeer(board, myId)
      peerToken == findTokenForPeer(board, peerId)
      maxVolume == maxVolumeOf(peerVolumes, peerId)
  IN IF myToken = NoToken THEN maxVolume
     ELSE IF peerToken # NoToken
          THEN finalVolume(distanceSq(myToken, peerToken), maxVolume)
          ELSE maxVolume

\* session.peerAudioElements and session.peerVolumes of one page: volume[q]
\* is the volume of the audio element of q (NoVolume: no element), and
\* peerVolumes[q] the maximum set with the slider (NoVolume: no entry)
NoAudio ==
  [peerVolumes |-> [q \in Keys |-> NoVolume],
   volume |-> [q \in Keys |-> NoVolume]]

\* updateDistanceBasedAudio(): every audio element gets its volume
updateDistanceBasedAudio(board, myId, a) ==
  [a EXCEPT !.volume = [q \in Keys |->
                          IF a.volume[q] = NoVolume THEN NoVolume
                          ELSE volumeOf(board, myId, q, a.peerVolumes)]]

(***************************************************************************)
(* State                                                                   *)
(***************************************************************************)
VARIABLES
  role,        \* session.role of each participant: "idle" | "gm" | "player" | "gone"
  gmId,        \* session.gmId
  peers,       \* session.peers: key -> link (NoLink when the key is absent)
  links,       \* the WebRTCManager objects: signaling state, remote end, channel
  p2pOffers,   \* the GM's session.p2pOffers: participant id -> offer
  layers,      \* boardState.layers of each participant
  vtt,         \* the GM's session.vtt.layers
  aliased,     \* session.vtt.layers and boardState.layers are the same array
  chan,        \* messages in flight, by receiving link (ordered, reliable)
  tasks,       \* suspended async functions (awaiting the handshake steps)
  invites,     \* invite payloads handed out by the GM (out of band)
  answers,     \* answer payloads produced by players (out of band)
  drag,        \* Board.draggedToken and the fields that go with it
  audio,       \* the audio elements' volumes and the user-set maxima of each page
  nextNpc,     \* number of NPC token ids handed out
  nextOid,     \* next identity for a layer object created on the GM
  ops,         \* number of user operations performed
  connEvents,  \* number of terminal connection-state events reported
  last         \* the step just taken: handler, message handled, sends, event applied

sessionVars == <<role, gmId, peers, links, p2pOffers>>
docVars == <<layers, vtt, aliased, drag, audio>>
netVars == <<chan, tasks, invites, answers>>
counters == <<nextNpc, nextOid, ops, connEvents>>
vars == <<role, gmId, peers, links, p2pOffers, layers, vtt, aliased, chan, tasks,
          invites, answers, drag, audio, nextNpc, nextOid, ops, connEvents, last>>

NoDrag == [on |-> FALSE, layerId |-> Null, tokenId |-> Null, x |-> 0, y |-> 0, live |-> FALSE]

Step(op, who, peer, msg, sent, event) ==
  [op |-> op, who |-> who, peer |-> peer, msg |-> msg, sent |-> sent, event |-> event]

Init ==
  /\ role = [p \in Participants |-> IF p = GM THEN "gm" ELSE "idle"]
  /\ gmId = [p \in Participants |-> Null]
  /\ peers = [p \in Participants |-> [k \in Keys |-> NoLink]]
  /\ links = [l \in LinkIds |-> NoLinkState]
  /\ p2pOffers = [g \in Participants |-> NoDesc]
  /\ layers = [p \in Participants |-> IF p = GM THEN InitialLayers ELSE <<>>]
  /\ vtt = InitialLayers
  /\ aliased = TRUE
  /\ chan = [l \in LinkIds |-> <<>>]
  /\ tasks = {}
  /\ invites = {}
  /\ answers = {}
  /\ drag = [p \in Participants |-> NoDrag]
  /\ audio = [p \in Participants |-> NoAudio]
  /\ nextNpc = 0
  /\ nextOid = 2
  /\ ops = 0
  /\ connEvents = 0
  /\ last = Step("init", Null, Null, NoMsg, {}, NoMsg)

(***************************************************************************)
(* WebRTCManager.send and CommunicationManager.broadcastMessage            *)
(***************************************************************************)
RECURSIVE SetToSeq(_)
SetToSeq(S) ==
  IF S = {} THEN <<>>
  ELSE LET x == CHOOSE y \in S : TRUE IN <<x>> \o SetToSeq(S \ {x})

\* the links in a directory (session.peers.values())
PeerLinks(dir) == {dir[k] : k \in Keys} \ {NoLink}

\* variant that sends whatever the state of the channel
CanSendAnyChannel(lk, l) == TRUE

\* WebRTCManager.send (README.md:365-371): delivers only on an open channel
CanSend(lk, l) == lk[l].chan = "open"

\* one send call: <<link, message>>
RECURSIVE SendSeq(_, _, _)
SendSeq(ch, lk, sends) ==
  IF sends = <<>> THEN ch
  ELSE LET l == Head(sends)[1]
           m == Head(sends)[2]
           r == lk[l].remote
           ch2 == IF CanSend(lk, l) /\ r # NoLink /\ lk[r].sig # "closed"
                  THEN [ch EXCEPT ![r] = Append(@, WireCopy(m))]
                  ELSE ch
       IN SendSeq(ch2, lk, Tail(sends))

SentSet(lk, sends) ==
  {[to |-> sends[i][1], msg |-> sends[i][2], ok |-> CanSend(lk, sends[i][1])] :
     i \in DOMAIN sends}

\* for (const peer of this.session.peers.values()) peer.send(message)
BroadcastSends(dir, msg) ==
  LET ls == SetToSeq(PeerLinks(dir)) IN [i \in DOMAIN ls |-> <<ls[i], msg>>]

(***************************************************************************)
(* Applying an event to a participant's board (eventHandler.handleEvent)   *)
(* foreign: the layers of a game-state-update are not the board's own array *)
(***************************************************************************)
NewAliased(p, event, foreign) ==
  IF p # GM THEN aliased
  ELSE aliased /\ event.type # "layer-deleted"
               /\ ~(event.type = "game-state-update" /\ foreign)

\* session.vtt.layers shares its layer objects with boardState.layers
SyncVtt(newLayers, newAliased) ==
  IF newAliased THEN newLayers
  ELSE [i \in DOMAIN vtt |->
          LET j == FindIdx(newLayers, LAMBDA l : l.oid = vtt[i].oid /\ l.oid # 0) IN
          IF j # 0 THEN newLayers[j] ELSE vtt[i]]

\* the dragged token object stays part of the document only while no event
\* replaced or removed it
DragAfter(p, newLayers, replaced) ==
  IF drag[p].on
  THEN [drag[p] EXCEPT !.live = @ /\ ~replaced
                                  /\ hasToken(newLayers, drag[p].layerId, drag[p].tokenId)]
  ELSE drag[p]

SetLayers(p, newLayers, newAliased, newDrag) ==
  /\ layers' = [layers EXCEPT ![p] = newLayers]
  /\ aliased' = newAliased
  /\ vtt' = IF p = GM THEN SyncVtt(newLayers, newAliased) ELSE vtt
  /\ drag' = [drag EXCEPT ![p] = newDrag]

\* eventHandler.handleEvent(event) and its onStateChange callback
\* (renderLayerControls(); updatePeerList()), which touches no audio element
ApplyEvent(p, event, foreign) ==
  LET newLayers == handleEvent(layers[p], event) IN
  /\ SetLayers(p, newLayers, NewAliased(p, event, foreign),
               DragAfter(p, newLayers, event.type = "game-state-update" /\ foreign))
  /\ UNCHANGED audio

(***************************************************************************)
(* Initial connection: invite, answer, channel open                        *)
(***************************************************************************)
Task(kind, who, link, peer, desc, inviteId) ==
  [kind |-> kind, who |-> who, link |-> link, peer |-> peer, desc |-> desc,
   inviteId |-> inviteId]

InvitePayload(inviteId, offer, from) ==
  [type |-> "invite", inviteId |-> inviteId, offer |-> offer, from |-> from]
AnswerPayload(inviteId, from, answer) ==
  [type |-> "answer", inviteId |-> inviteId, from |-> from, answer |-> answer]

\* RTCPeerConnection.setRemoteDescription(answer): only a link that has made
\* an offer and has no answer yet accepts one
AcceptsAnswer(lk, l) == lk[l].sig = "have-local-offer"

\* createInvite, up to its first await: the link is stored under the invite id
CreateInvite(inv) ==
  /\ role[GM] = "gm"
  /\ links[HostLink(inv)].sig = "none"
  /\ links' = [links EXCEPT ![HostLink(inv)] = [NoLinkState EXCEPT !.sig = "new"]]
  /\ peers' = [peers EXCEPT ![GM][inv] = HostLink(inv)]
  /\ tasks' = tasks \cup {Task("createInvite", GM, HostLink(inv), Null, NoDesc, inv)}
  /\ last' = Step("createInvite", GM, Null, NoMsg, {}, NoMsg)
  /\ UNCHANGED <<role, gmId, p2pOffers, docVars, chan, invites, answers, counters>>

\* createInvite, after createOffer and candidate gathering: the invite payload
CreateInviteDone(inv) ==
  LET t == Task("createInvite", GM, HostLink(inv), Null, NoDesc, inv) IN
  /\ t \in tasks
  /\ tasks' = tasks \ {t}
  /\ links' = [links EXCEPT ![HostLink(inv)].sig = "have-local-offer",
                            ![HostLink(inv)].chan = "connecting"]
  /\ invites' = invites \cup {InvitePayload(inv, Desc("offer", HostLink(inv)), GM)}
  /\ last' = Step("createInviteDone", GM, Null, NoMsg, {}, NoMsg)
  /\ UNCHANGED <<role, gmId, peers, p2pOffers, docVars, chan, answers, counters>>

\* a player opens the invite link: initialize and processInvite up to the
\* first await
ProcessInvite(g, payload) ==
  /\ role[g] = "idle"
  /\ payload \in invites
  /\ role' = [role EXCEPT ![g] = "player"]
  /\ gmId' = [gmId EXCEPT ![g] = payload.from]
  /\ links' = [links EXCEPT ![<<g, GM>>] = [NoLinkState EXCEPT !.sig = "new"]]
  /\ peers' = [peers EXCEPT ![g][payload.from] = <<g, GM>>]
  /\ tasks' = tasks \cup
       {Task("processInvite", g, <<g, GM>>, payload.from, payload.offer, payload.inviteId)}
  /\ last' = Step("processInvite", g, Null, NoMsg, {}, NoMsg)
  /\ UNCHANGED <<p2pOffers, docVars, chan, invites, answers, counters>>

\* processInvite, the rest: handlers, remote offer, answer, answer payload
ProcessInviteDone(g) ==
  \E t \in tasks :
    /\ t.kind = "processInvite" /\ t.who = g
    /\ tasks' = tasks \ {t}
    /\ links' = [links EXCEPT ![t.link].handler = t.peer,
                              ![t.link].sig = "stable",
                              ![t.link].remote = t.desc.link]
    /\ answers' = answers \cup {AnswerPayload(t.inviteId, g, Desc("answer", t.link))}
    /\ last' = Step("processInviteDone", g, Null, NoMsg, {}, NoMsg)
    /\ UNCHANGED <<role, gmId, peers, p2pOffers, docVars, chan, invites, counters>>

\* the answer payload as the step's input
AnswerInput(payload) ==
  [Msg("answer") EXCEPT !.inviteId = payload.inviteId, !.from = payload.from,
                        !.answer = payload.answer]

\* variant that stores the link under the new key and keeps the old key
RekeyKeepOld(dir, old, new, link) == [dir EXCEPT ![new] = link]

\* this.session.peers.delete(payload.inviteId); this.session.peers.set(payload.from, rtcManager)
Rekey(dir, old, new, link) == [[dir EXCEPT ![old] = NoLink] EXCEPT ![new] = link]

\* variant without the early throw: the directory is touched before the
\* failure surfaces
ProcessAnswerLateThrow(payload) ==
  LET rtcManager == peers[GM][payload.inviteId] IN
  /\ role[GM] = "gm"
  /\ IF rtcManager = NoLink
     THEN /\ last' = Step("processAnswerError", GM, payload.from, AnswerInput(payload), {}, NoMsg)
          /\ peers' = [peers EXCEPT ![GM] = Rekey(@, payload.inviteId, payload.from, NoLink)]
          /\ UNCHANGED links
     ELSE /\ peers' = [peers EXCEPT ![GM] = Rekey(@, payload.inviteId, payload.from, rtcManager)]
          /\ links' = [links EXCEPT
                         ![rtcManager] =
                            IF AcceptsAnswer(links, rtcManager)
                            THEN [@ EXCEPT !.handler = payload.from, !.sig = "stable",
                                           !.remote = payload.answer.link]
                            ELSE [@ EXCEPT !.handler = payload.from]]
          /\ last' = Step("processAnswer", GM, payload.from, AnswerInput(payload), {}, NoMsg)
  /\ UNCHANGED <<role, gmId, p2pOffers, docVars, netVars, counters>>

\* processAnswer: the GM pastes an answer payload
ProcessAnswer(payload) ==
  LET rtcManager == peers[GM][payload.inviteId] IN
  /\ role[GM] = "gm"
  /\ IF rtcManager = NoLink
     THEN \* throw new Error(`No pending invite found ...`)
          /\ last' = Step("processAnswerError", GM, payload.from, AnswerInput(payload), {}, NoMsg)
          /\ UNCHANGED <<peers, links>>
     ELSE /\ peers' = [peers EXCEPT ![GM] = Rekey(@, payload.inviteId, payload.from, rtcManager)]
          /\ links' = [links EXCEPT
                         ![rtcManager] =
                            IF AcceptsAnswer(links, rtcManager)
                            THEN [@ EXCEPT !.handler = payload.from, !.sig = "stable",
                                           !.remote = payload.answer.link]
                            ELSE [@ EXCEPT !.handler = payload.from]]
          /\ last' = Step("processAnswer", GM, payload.from, AnswerInput(payload), {}, NoMsg)
  /\ UNCHANGED <<role, gmId, p2pOffers, docVars, netVars, counters>>

\* both ends have applied each other's description and neither is closed
Connectable(lk, l) ==
  LET r == lk[l].remote IN
  /\ lk[l].sig = "stable"
  /\ r # NoLink
  /\ lk[r].sig = "stable"
  /\ lk[r].remote = l

\* the argument of findLayer at communication.js:248 is the arrow function
\* itself; findLayer compares it with each layer's id
PlayerLayerPredicate == "l => l.name === 'Player Layer'"

\* variant that never finds an offer in the pool
OfferEntriesNone == <<>>

\* Array.from(this.session.p2pOffers.entries())
OfferEntries ==
  SetToSeq({<<q, p2pOffers[q]>> : q \in {x \in Participants : p2pOffers[x] # NoDesc}})

\* variant that sends the offers and the request before the game state
OpenSendsStateLast(dir, l, update, offers) ==
  (IF offers # <<>> THEN << <<l, P2POfferList(offers)>> >> ELSE <<>>)
    \o << <<l, RequestP2POffer>> >>
    \o BroadcastSends(dir, update)

\* the sends of ondatachannelopen on the GM, in order: the game state to
\* every peer, then the pooled offers (if any) and the request for an offer
\* on the link that opened
OpenSends(dir, l, update, offers) ==
  BroadcastSends(dir, update)
    \o (IF offers # <<>> THEN << <<l, P2POfferList(offers)>> >> ELSE <<>>)
    \o << <<l, RequestP2POffer>> >>

\* rtcManager.ondatachannelopen
ChannelOpen(l) ==
  LET p == Owner(l)
      peerId == links[l].handler
      lk == [links EXCEPT ![l].chan = "open", ![l].conn = "connected"]
  IN
  /\ links[l].chan \in {"none", "connecting"}
  /\ Connectable(links, l)
  /\ role[p] \in {"gm", "player"}
  /\ links' = lk
  /\ IF role[p] = "gm" /\ peerId # Null /\ peerId # gmId[p]
     THEN \E color \in Colors :
          LET pl == findLayer(layers[p], PlayerLayerPredicate)
              newPlayerToken == Token(PlayerTokenId(peerId), 50, 50, color, peerId)
              layers1 == IF pl # 0
                         THEN handleEvent(layers[p],
                                TokenAdded(layers[p][pl].id, newPlayerToken))
                         ELSE layers[p]
              update == GameStateUpdate(layers1)
              offers == OfferEntries
              sends == OpenSends(peers[p], l, update, offers)
          IN /\ SetLayers(p, layers1, aliased, DragAfter(p, layers1, FALSE))
             /\ UNCHANGED audio
             /\ chan' = SendSeq(chan, lk, sends)
             /\ last' = Step("datachannelopen", p, peerId, NoMsg, SentSet(lk, sends), update)
     ELSE /\ last' = Step("datachannelopen", p, peerId, NoMsg, {}, NoMsg)
          /\ UNCHANGED <<docVars, chan>>
  /\ UNCHANGED <<role, gmId, peers, p2pOffers, tasks, invites, answers, counters>>

(***************************************************************************)
(* CommunicationManager.broadcastMessage and _handleMessage                *)
(***************************************************************************)
\* variant with origin special-casing: the link of the peer whose request is
\* being answered is left out of the broadcast
BroadcastExceptOrigin(p, ch, event, foreign, op, peerId, msg) ==
  LET sends == BroadcastSends([k \in Keys |-> IF k = peerId THEN NoLink ELSE peers[p][k]],
                              event) IN
  /\ chan' = SendSeq(ch, links, sends)
  /\ ApplyEvent(p, event, foreign)
  /\ last' = Step(op, p, peerId, msg, SentSet(links, sends), event)

\* broadcastMessage(message): send to every link of the directory, then
\* handle the message locally
Broadcast(p, ch, event, foreign, op, peerId, msg) ==
  LET sends == BroadcastSends(peers[p], event) IN
  /\ chan' = SendSeq(ch, links, sends)
  /\ ApplyEvent(p, event, foreign)
  /\ last' = Step(op, p, peerId, msg, SentSet(links, sends), event)

NoEffect(p, ch, op, peerId, msg) ==
  /\ chan' = ch
  /\ last' = Step(op, p, peerId, msg, {}, NoMsg)
  /\ UNCHANGED docVars

\* case 'token-move-request'
MoveRequestValid(p, msg) == role[p] = "gm" /\ hasToken(layers[p], msg.layerId, msg.tokenId)

\* variant that does not release what the requester already owns
ClaimChangesKeepOwned(p, peerId, msg) ==
  IF hasToken(layers[p], msg.layerId, msg.tokenId)
  THEN << Change(msg.layerId, msg.tokenId, peerId) >>
  ELSE <<>>

\* case 'claim-token-request': the batch of ownership changes
ClaimChanges(p, peerId, msg) ==
  ownedChanges(layers[p], peerId, Null)
    \o (IF hasToken(layers[p], msg.layerId, msg.tokenId)
        THEN << Change(msg.layerId, msg.tokenId, peerId) >>
        ELSE <<>>)

\* variant without the ownership test (token.peerId === peerId)
UnclaimRequestAnyOwner(p, peerId, msg) ==
  LET f == findToken(layers[p], msg.layerId, msg.tokenId) IN
  /\ role[p] = "gm"
  /\ f # <<0, 0>>

\* case 'unclaim-token-request'
UnclaimRequestValid(p, peerId, msg) ==
  LET f == findToken(layers[p], msg.layerId, msg.tokenId) IN
  /\ role[p] = "gm"
  /\ f # <<0, 0>>
  /\ layers[p][f[1]].tokens[f[2]].peerId = peerId

\* variant that stores the offer and forwards it to nobody
OfferForwardsNone(p, peerId, msg) == <<>>

\* variant that forwards to every entry of the directory, the sender included
OfferForwardsAll(p, peerId, msg) ==
  LET ks == SetToSeq({k \in Keys : peers[p][k] # NoLink}) IN
  [i \in DOMAIN ks |-> <<peers[p][ks[i]], P2POfferList(<< <<peerId, msg.offer>> >>)>>]

\* case 'p2p-offer': the forwards to every other entry of the directory
OfferForwards(p, peerId, msg) ==
  LET ks == SetToSeq({k \in Keys : k # peerId /\ peers[p][k] # NoLink}) IN
  [i \in DOMAIN ks |-> <<peers[p][ks[i]], P2POfferList(<< <<peerId, msg.offer>> >>)>>]

\* variant that passes the answer on to every entry of the directory
AnswerRelayToAll(p, msg) == BroadcastSends(peers[p], msg)

\* case 'p2p-answer' on the GM: targetPeer = peers.get(msg.to); targetPeer.send(msg)
AnswerRelaySends(p, msg) ==
  LET targetPeer == peers[p][msg.to] IN
  IF targetPeer # NoLink THEN << <<targetPeer, msg>> >> ELSE <<>>

\* variant that takes every entry of the list
NewOfferEntriesAll(p, offers) == offers

\* _handleP2POfferList: the entries that get a new link
NewOfferEntries(p, offers) ==
  SeqFilter(offers, LAMBDA e : ~(peers[p][e[1]] # NoLink \/ e[1] = p))

\* a message arrives on link l: rtcManager.onmessage = (msg) => this._handleMessage(peerId, msg)
Deliver(l) ==
  LET p == Owner(l)
      peerId == links[l].handler
      msg == Head(chan[l])
      rest == [chan EXCEPT ![l] = Tail(@)]
  IN
  /\ chan[l] # <<>>
  /\ links[l].chan = "open"
  /\ peerId # Null
  /\ role[p] \in {"gm", "player"}
  /\ CASE msg.type \in StateEventTypes ->
            /\ ApplyEvent(p, msg, TRUE)
            /\ chan' = rest
            /\ last' = Step("message", p, peerId, msg, {}, msg)
            /\ UNCHANGED <<peers, links, p2pOffers, tasks>>
       [] msg.type = "token-move-request" ->
            /\ IF MoveRequestValid(p, msg)
               THEN Broadcast(p, rest, TokenMoved(msg.layerId, msg.tokenId, msg.x, msg.y),
                              FALSE, "message", peerId, msg)
               ELSE NoEffect(p, rest, "message", peerId, msg)
            /\ UNCHANGED <<peers, links, p2pOffers, tasks>>
       [] msg.type = "claim-token-request" ->
            /\ IF role[p] = "gm"
               THEN Broadcast(p, rest, TokenOwnershipChanged(ClaimChanges(p, peerId, msg)),
                              FALSE, "message", peerId, msg)
               ELSE NoEffect(p, rest, "message", peerId, msg)
            /\ UNCHANGED <<peers, links, p2pOffers, tasks>>
       [] msg.type = "unclaim-token-request" ->
            /\ IF UnclaimRequestValid(p, peerId, msg)
               THEN Broadcast(p, rest,
                              TokenOwnershipChanged(<< Change(msg.layerId, msg.tokenId, Null) >>),
                              FALSE, "message", peerId, msg)
               ELSE NoEffect(p, rest, "message", peerId, msg)
            /\ UNCHANGED <<peers, links, p2pOffers, tasks>>
       [] msg.type = "token-color-change-request" ->
            /\ IF role[p] = "gm"
               THEN Broadcast(p, rest,
                              TokenPropertyChanged(msg.layerId, msg.tokenId, msg.color),
                              FALSE, "message", peerId, msg)
               ELSE NoEffect(p, rest, "message", peerId, msg)
            /\ UNCHANGED <<peers, links, p2pOffers, tasks>>
       [] msg.type = "p2p-offer" ->
            /\ IF role[p] = "gm"
               THEN LET sends == OfferForwards(p, peerId, msg) IN
                    /\ p2pOffers' = [p2pOffers EXCEPT ![peerId] = msg.offer]
                    /\ chan' = SendSeq(rest, links, sends)
                    /\ last' = Step("message", p, peerId, msg, SentSet(links, sends), NoMsg)
               ELSE /\ chan' = rest
                    /\ last' = Step("message", p, peerId, msg, {}, NoMsg)
                    /\ UNCHANGED p2pOffers
            /\ UNCHANGED <<peers, links, tasks, docVars>>
       [] msg.type = "request-p2p-offer" ->
            /\ IF role[p] = "player"
               THEN \* _generateAndSendP2POffer(peerId), up to its first await
                    /\ links' = [links EXCEPT ![<<p, Template>>] =
                                   [NoLinkState EXCEPT !.sig = "new", !.chan = "connecting"]]
                    /\ tasks' = tasks \cup
                         {Task("p2pOffer", p, <<p, Template>>, peerId, NoDesc, Null)}
               ELSE UNCHANGED <<links, tasks>>
            /\ chan' = rest
            /\ last' = Step("message", p, peerId, msg, {}, NoMsg)
            /\ UNCHANGED <<peers, p2pOffers, docVars>>
       [] msg.type = "p2p-offer-list" ->
            \* _handleP2POfferList(msg.offers), each callback up to its first await
            LET new == NewOfferEntries(p, msg.offers)
                others == {new[i][1] : i \in DOMAIN new}
                offerOf(o) == new[FindIdx(new, LAMBDA e : e[1] = o)][2]
            IN
            /\ links' = [x \in LinkIds |->
                           IF Owner(x) = p /\ x[2] \in others
                           THEN [NoLinkState EXCEPT !.sig = "new", !.handler = x[2]]
                           ELSE links[x]]
            /\ peers' = [peers EXCEPT ![p] =
                           [k \in Keys |-> IF k \in others THEN <<p, k>> ELSE @[k]]]
            /\ tasks' = tasks \cup
                 {Task("p2pAnswer", p, <<p, o>>, o, offerOf(o), Null) : o \in others}
            /\ chan' = [x \in LinkIds |->
                          IF Owner(x) = p /\ x[2] \in others THEN <<>> ELSE rest[x]]
            /\ last' = Step("message", p, peerId, msg, {}, NoMsg)
            /\ UNCHANGED <<p2pOffers, docVars>>
       [] msg.type = "p2p-answer" ->
            /\ IF role[p] = "gm"
               THEN LET sends == AnswerRelaySends(p, msg)
                    IN /\ chan' = SendSeq(rest, links, sends)
                       /\ last' = Step("message", p, peerId, msg, SentSet(links, sends), NoMsg)
                       /\ UNCHANGED links
               ELSE LET p2pManager == peers[p][msg.from] IN
                    /\ links' = IF p2pManager # NoLink /\ AcceptsAnswer(links, p2pManager)
                                THEN [links EXCEPT ![p2pManager].sig = "stable",
                                                   ![p2pManager].remote = msg.answer.link]
                                ELSE links
                    /\ chan' = rest
                    /\ last' = Step("message", p, peerId, msg, {}, NoMsg)
            /\ UNCHANGED <<peers, p2pOffers, tasks, docVars>>
       [] OTHER ->
            /\ NoEffect(p, rest, "message", peerId, msg)
            /\ UNCHANGED <<peers, links, p2pOffers, tasks>>
  /\ UNCHANGED <<role, gmId, invites, answers, counters>>

\* _generateAndSendP2POffer after createOffer and candidate gathering:
\* send the offer to the GM, then close the link that made it
P2POfferDone(g) ==
  \E t \in tasks :
    /\ t.kind = "p2pOffer" /\ t.who = g
    /\ role[g] = "player"
    /\ LET gmConnection == peers[g][t.peer]
           lk == [links EXCEPT ![t.link].sig = "have-local-offer"]
           sends == IF gmConnection # NoLink
                    THEN << <<gmConnection, P2POffer(Desc("offer", t.link))>> >>
                    ELSE <<>>
       IN /\ chan' = SendSeq(chan, lk, sends)
          /\ links' = [lk EXCEPT ![t.link].sig = "closed", ![t.link].chan = "closed",
                                 ![t.link].conn = "closed"]
          /\ last' = Step("p2pOfferDone", g, t.peer, NoMsg, SentSet(lk, sends), NoMsg)
    /\ tasks' = tasks \ {t}
    /\ UNCHANGED <<role, gmId, peers, p2pOffers, docVars, invites, answers, counters>>

\* one callback of _handleP2POfferList after the remote offer, the answer and
\* candidate gathering: send the answer to the GM for forwarding
P2PAnswerDone(g, o) ==
  \E t \in tasks :
    /\ t.kind = "p2pAnswer" /\ t.who = g /\ t.peer = o
    /\ role[g] \in {"gm", "player"}
    /\ LET gmConnection == IF gmId[g] = Null THEN NoLink ELSE peers[g][gmId[g]]
           lk == [links EXCEPT ![t.link].sig = "stable", ![t.link].remote = t.desc.link]
           sends == IF gmConnection # NoLink
                    THEN << <<gmConnection, P2PAnswer(o, g, Desc("answer", t.link))>> >>
                    ELSE <<>>
       IN /\ chan' = SendSeq(chan, lk, sends)
          /\ links' = lk
          /\ last' = Step("p2pAnswerDone", g, o, NoMsg, SentSet(lk, sends), NoMsg)
    /\ tasks' = tasks \ {t}
    /\ UNCHANGED <<role, gmId, peers, p2pOffers, docVars, invites, answers, counters>>

(***************************************************************************)
(* User operations                                                         *)
(***************************************************************************)
\* where a token can be dropped / what a request can carry
MovePoints == {<<60, 50>>, <<300, 50>>}
\* the (layer, token) pairs a player's request can name
RequestTargets ==
  {<<PlayerLayerId, "token_n1">>, <<PlayerLayerId, "token_n2">>,
   <<PlayerLayerId, "token_zz">>, <<"layer_zz", "token_n1">>}

Budget == ops < MaxOps
Spend == ops' = ops + 1

\* variant that sends the request on every link of the directory
SendToEveryPeer(g, request, op) ==
  LET sends == BroadcastSends(peers[g], request)
  IN /\ chan' = SendSeq(chan, links, sends)
     /\ last' = Step(op, g, Null, NoMsg, SentSet(links, sends), NoMsg)

\* gmConnection.send(request) of sendTokenMoveRequest, sendClaimTokenRequest,
\* sendUnclaimTokenRequest and sendTokenColorChangeRequest
SendToGm(g, request, op) ==
  LET gmConnection == IF gmId[g] = Null THEN NoLink ELSE peers[g][gmId[g]]
      sends == IF gmConnection # NoLink THEN << <<gmConnection, request>> >> ELSE <<>>
  IN /\ chan' = SendSeq(chan, links, sends)
     /\ last' = Step(op, g, Null, NoMsg, SentSet(links, sends), NoMsg)

SendTokenMoveRequest(g, target, pt) ==
  /\ role[g] = "player" /\ Budget /\ Spend
  /\ SendToGm(g, TokenMoveRequest(target[1], target[2], pt[1], pt[2]), "sendTokenMoveRequest")
  /\ UNCHANGED <<sessionVars, docVars, tasks, invites, answers, nextNpc, nextOid, connEvents>>

\* claimBtn.onclick on a player
SendClaimTokenRequest(g, target) ==
  /\ role[g] = "player" /\ Budget /\ Spend
  /\ SendToGm(g, ClaimTokenRequest(target[1], target[2]), "sendClaimTokenRequest")
  /\ UNCHANGED <<sessionVars, docVars, tasks, invites, answers, nextNpc, nextOid, connEvents>>

\* unclaimBtn.onclick on a player
SendUnclaimTokenRequest(g, target) ==
  /\ role[g] = "player" /\ Budget /\ Spend
  /\ SendToGm(g, UnclaimTokenRequest(target[1], target[2]), "sendUnclaimTokenRequest")
  /\ UNCHANGED <<sessionVars, docVars, tasks, invites, answers, nextNpc, nextOid, connEvents>>

SendTokenColorChangeRequest(g, target, color) ==
  /\ role[g] = "player" /\ Budget /\ Spend
  /\ SendToGm(g, TokenColorChangeRequest(target[1], target[2], color),
              "sendTokenColorChangeRequest")
  /\ UNCHANGED <<sessionVars, docVars, tasks, invites, answers, nextNpc, nextOid, connEvents>>

\* addNpcBtn.onclick of a layer's controls (GM)
HostAddNpc(layerId) ==
  /\ role[GM] = "gm"
  /\ findLayer(layers[GM], layerId) # 0
  /\ nextNpc < Len(NpcIds)
  /\ nextNpc' = nextNpc + 1
  /\ Broadcast(GM, chan, TokenAdded(layerId, Token(NpcIds[nextNpc + 1], 100, 100, "purple", Null)),
               FALSE, "addNpc", Null, NoMsg)
  /\ UNCHANGED <<sessionVars, tasks, invites, answers, nextOid, ops, connEvents>>

\* claimBtn.onclick on the GM: the menu was opened on a token that existed
HostClaim(layerId, tokenId) ==
  /\ role[GM] = "gm" /\ Budget /\ Spend
  /\ hasToken(layers[GM], layerId, tokenId)
  /\ Broadcast(GM, chan,
               TokenOwnershipChanged(ownedChanges(layers[GM], GM, Null)
                                       \o << Change(layerId, tokenId, GM) >>),
               FALSE, "claim", Null, NoMsg)
  /\ UNCHANGED <<sessionVars, tasks, invites, answers, nextNpc, nextOid, connEvents>>

\* unclaimBtn.onclick on the GM
HostUnclaim(layerId, tokenId) ==
  /\ role[GM] = "gm" /\ Budget /\ Spend
  /\ hasToken(layers[GM], layerId, tokenId)
  /\ Broadcast(GM, chan, TokenOwnershipChanged(<< Change(layerId, tokenId, Null) >>),
               FALSE, "unclaim", Null, NoMsg)
  /\ UNCHANGED <<sessionVars, tasks, invites, answers, nextNpc, nextOid, connEvents>>

\* deleteBtn.onclick
HostDeleteToken(layerId, tokenId) ==
  /\ role[GM] = "gm" /\ Budget /\ Spend
  /\ hasToken(layers[GM], layerId, tokenId)
  /\ Broadcast(GM, chan, TokenDeleted(layerId, tokenId), FALSE, "deleteToken", Null, NoMsg)
  /\ UNCHANGED <<sessionVars, tasks, invites, answers, nextNpc, nextOid, connEvents>>

\* boards that can be loaded or imported (loadBoardState): a board on which
\* g1 owns its player token and another token
SavedBoards ==
  { << Layer(0, PlayerLayerId, "Player Layer",
             << Token("token_g1", 50, 50, "red", "g1"),
                Token("token_n1", 100, 100, "purple", "g1") >>) >> }

FreshOids(board, first) == [i \in DOMAIN board |-> [board[i] EXCEPT !.oid = first + i - 1]]

\* loadBoardState(newState, ...)
HostLoadBoard(board) ==
  /\ role[GM] = "gm" /\ Budget /\ Spend
  /\ nextOid' = nextOid + Len(board)
  /\ Broadcast(GM, chan, GameStateUpdate(FreshOids(board, nextOid)), TRUE, "loadBoard",
               Null, NoMsg)
  /\ UNCHANGED <<sessionVars, tasks, invites, answers, nextNpc, connEvents>>

(***************************************************************************)
(* Board: dragging a token with the mouse                                  *)
(***************************************************************************)
\* Board.onMouseDown on a token
MouseDown(p, layerId, tokenId) ==
  LET f == findToken(layers[p], layerId, tokenId) IN
  /\ role[p] \in {"gm", "player"} /\ Budget /\ Spend
  /\ ~drag[p].on
  /\ f # <<0, 0>>
  /\ layers[p][f[1]].visible \/ role[p] = "gm"
  /\ drag' = [drag EXCEPT ![p] =
                [on |-> TRUE, layerId |-> layerId, tokenId |-> tokenId,
                 x |-> layers[p][f[1]].tokens[f[2]].x,
                 y |-> layers[p][f[1]].tokens[f[2]].y, live |-> TRUE]]
  /\ last' = Step("mouseDown", p, Null, NoMsg, {}, NoMsg)
  /\ UNCHANGED <<sessionVars, layers, vtt, aliased, audio, netVars, nextNpc, nextOid, connEvents>>

\* the document after this.draggedToken.x = ...; this.draggedToken.y = ...
DraggedTo(p, x, y) ==
  IF drag[p].live
  THEN handleEvent(layers[p], TokenMoved(drag[p].layerId, drag[p].tokenId, x, y))
  ELSE layers[p]

\* Board.onMouseMove while a token is dragged
MouseMove(p, pt) ==
  /\ role[p] \in {"gm", "player"}
  /\ drag[p].on
  /\ SetLayers(p, DraggedTo(p, pt[1], pt[2]), aliased, drag[p])
  /\ UNCHANGED audio
  /\ last' = Step("mouseMove", p, Null, NoMsg, {}, NoMsg)
  /\ UNCHANGED <<sessionVars, netVars, counters>>

\* Board.onMouseUp while a token is dragged; button: "click" (left, moved
\* less than 5 px), "drag" (left, moved) or "right"
MouseUp(p, button, pt) ==
  /\ role[p] \in {"gm", "player"}
  /\ drag[p].on
  /\ CASE button = "right" ->
            /\ drag' = [drag EXCEPT ![p] = NoDrag]
            /\ last' = Step("mouseUp", p, Null, NoMsg, {}, NoMsg)
            /\ UNCHANGED <<layers, vtt, aliased, audio, chan>>
       [] button = "click" ->
            /\ SetLayers(p, DraggedTo(p, drag[p].x, drag[p].y), aliased, NoDrag)
            /\ UNCHANGED audio
            /\ last' = Step("mouseUp", p, Null, NoMsg, {}, NoMsg)
            /\ UNCHANGED chan
       [] OTHER ->
            \* onTokenMoveRequested (part_000:724-732)
            LET event == TokenMoved(drag[p].layerId, drag[p].tokenId, pt[1], pt[2])
                sends == BroadcastSends(peers[p], event)
            IN /\ chan' = SendSeq(chan, links, sends)
               /\ SetLayers(p, handleEvent(layers[p], event), aliased, NoDrag)
               /\ UNCHANGED audio
               /\ last' = Step("tokenMoveRequested", p, Null, NoMsg,
                               SentSet(links, sends), event)
  /\ UNCHANGED <<sessionVars, tasks, invites, answers, counters>>

(***************************************************************************)
(* Departure                                                               *)
(***************************************************************************)
\* a player closes the page: all its links close
GuestLeaves(g) ==
  /\ role[g] = "player"
  /\ connEvents < MaxConnEvents
  /\ role' = [role EXCEPT ![g] = "gone"]
  /\ links' = [l \in LinkIds |->
                 IF Owner(l) = g /\ links[l].sig # "none"
                 THEN [links[l] EXCEPT !.sig = "closed", !.chan = "closed", !.conn = "closed"]
                 ELSE links[l]]
  /\ chan' = [l \in LinkIds |-> IF Owner(l) = g THEN <<>> ELSE chan[l]]
  /\ tasks' = {t \in tasks : t.who # g}
  /\ drag' = [drag EXCEPT ![g] = NoDrag]
  /\ last' = Step("leave", g, Null, NoMsg, {}, NoMsg)
  /\ UNCHANGED <<gmId, peers, p2pOffers, layers, vtt, aliased, audio, invites, answers, counters>>

TerminalStates == {"disconnected", "failed"}

\* rtcManager.onconnectionstatechange with a terminal state, reported when
\* the remote end has gone
ConnectionStateChange(l, state) ==
  LET p == Owner(l)
      peerId == links[l].handler
      dir == [peers[p] EXCEPT ![peerId] = NoLink]
      \* audioEl.remove(); peerAudioElements.delete(peerId)
      removed == IF peerId \in Keys
                 THEN [audio[p] EXCEPT !.volume[peerId] = NoVolume]
                 ELSE audio[p]
  IN
  /\ peerId # Null
  /\ role[p] \in {"gm", "player"}
  /\ links[l].remote # NoLink /\ links[links[l].remote].sig = "closed"
  /\ links[l].conn \in {"new", "connected", "disconnected"}
  /\ state \in TerminalStates
  /\ links[l].conn # state
  /\ connEvents < MaxConnEvents + 1
  /\ connEvents' = connEvents + 1
  /\ links' = [links EXCEPT ![l].conn = state,
                            ![l].chan = IF state = "failed" THEN "closed" ELSE @]
  /\ peers' = [peers EXCEPT ![p] = dir]
  /\ IF role[p] = "gm"
     THEN LET removedTokenId == PlayerTokenId(peerId)
              event == PlayerDisconnectedUpdate(removedTokenId,
                          ownedChanges(vtt, peerId, removedTokenId))
              sends == BroadcastSends(dir, event)
              newLayers == handleEvent(layers[p], event)
          IN /\ p2pOffers' = [p2pOffers EXCEPT ![peerId] = NoDesc]
             /\ chan' = SendSeq(chan, links', sends)
             /\ SetLayers(p, newLayers, NewAliased(p, event, FALSE),
                          DragAfter(p, newLayers, FALSE))
             /\ audio' = [audio EXCEPT ![p] = updateDistanceBasedAudio(newLayers, p, removed)]
             /\ last' = Step("connectionstatechange", p, peerId, NoMsg,
                             SentSet(links', sends), event)
     ELSE /\ last' = Step("connectionstatechange", p, peerId, NoMsg, {}, NoMsg)
          /\ audio' = [audio EXCEPT ![p] = updateDistanceBasedAudio(layers[p], p, removed)]
          /\ UNCHANGED <<p2pOffers, chan, layers, vtt, aliased, drag>>
  /\ UNCHANGED <<role, gmId, tasks, invites, answers, nextNpc, nextOid, ops>>

(***************************************************************************)
(* Voice: the audio element of a peer and its volume slider                *)
(***************************************************************************)
\* rtcManager.ontrack of the link set up for peerId: the element is created
\* on the first track (an audio element starts at volume 1), then
\* updatePeerList()
OnTrack(l) ==
  LET p == Owner(l)
      peerId == links[l].handler
  IN
  /\ peerId \in Keys
  /\ role[p] \in {"gm", "player"}
  /\ links[l].sig = "stable" /\ links[l].remote # NoLink
  /\ audio' = [audio EXCEPT ![p].volume[peerId] = IF @ = NoVolume THEN One ELSE @]
  /\ last' = Step("track", p, peerId, NoMsg, {}, NoMsg)
  /\ UNCHANGED <<sessionVars, layers, vtt, aliased, drag, netVars, counters>>

\* positions of the volume slider (min 0, max 1, step 0.05)
SliderValues == {Zero, Rat(1, 2), One}

\* volumeSlider.oninput in the peer list of p, on the entry of a peer that
\* has an audio element
VolumeSliderInput(p, peerId, value) ==
  /\ role[p] \in {"gm", "player"}
  /\ peers[p][peerId] # NoLink
  /\ audio[p].volume[peerId] # NoVolume
  /\ audio' = [audio EXCEPT ![p] =
                 updateDistanceBasedAudio(layers[p], p, [@ EXCEPT !.peerVolumes[peerId] = value])]
  /\ last' = Step("volumeSliderInput", p, peerId, NoMsg, {}, NoMsg)
  /\ UNCHANGED <<sessionVars, layers, vtt, aliased, drag, netVars, counters>>

(***************************************************************************)
(* Failures of media capture and of offer / answer generation (catch blocks) *)
(***************************************************************************)
\* variant that leaves the entry in the directory
DiscardNothing(dir, key) == dir

\* this.session.peers.delete(key)
Discard(dir, key) == [dir EXCEPT ![key] = NoLink]

\* createInvite: getUserMedia or createOffer throws; catch deletes the entry
CreateInviteFail(inv) ==
  LET t == Task("createInvite", GM, HostLink(inv), Null, NoDesc, inv) IN
  /\ t \in tasks
  /\ tasks' = tasks \ {t}
  /\ peers' = [peers EXCEPT ![GM] = Discard(@, inv)]
  /\ last' = Step("createInviteError", GM, Null, [NoMsg EXCEPT !.inviteId = inv], {}, NoMsg)
  /\ UNCHANGED <<role, gmId, links, p2pOffers, docVars, chan, invites, answers, counters>>

\* processInvite: getUserMedia, setRemoteDescription or createAnswer throws
ProcessInviteFail(g) ==
  \E t \in tasks :
    /\ t.kind = "processInvite" /\ t.who = g
    /\ tasks' = tasks \ {t}
    /\ peers' = [peers EXCEPT ![g] = Discard(@, t.peer)]
    /\ last' = Step("processInviteError", g, t.peer, NoMsg, {}, NoMsg)
    /\ UNCHANGED <<role, gmId, links, p2pOffers, docVars, chan, invites, answers, counters>>

\* one callback of _handleP2POfferList: setRemoteDescription or createAnswer
\* throws
P2PAnswerFail(g, o) ==
  \E t \in tasks :
    /\ t.kind = "p2pAnswer" /\ t.who = g /\ t.peer = o
    /\ role[g] \in {"gm", "player"}
    /\ tasks' = tasks \ {t}
    /\ peers' = [peers EXCEPT ![g] = Discard(@, o)]
    /\ last' = Step("p2pAnswerError", g, o, NoMsg, {}, NoMsg)
    /\ UNCHANGED <<role, gmId, links, p2pOffers, docVars, chan, invites, answers, counters>>

(***************************************************************************)
(* Messages the program at the other end would not send                    *)
(***************************************************************************)
\* dataChannel.onmessage hands every JSON message of the channel to
\* _handleMessage: link l receives msg from a page that repeats a message
\* or does not run this program
UnexpectedMessage(l, msg) ==
  /\ links[l].chan = "open"
  /\ role[Owner(l)] \in {"gm", "player"}
  /\ Budget /\ Spend
  /\ chan' = [chan EXCEPT ![l] = Append(@, msg)]
  /\ last' = Step("unexpected", Null, Owner(l), NoMsg, {}, NoMsg)
  /\ UNCHANGED <<sessionVars, docVars, tasks, invites, answers, nextNpc, nextOid, connEvents>>

\* an offer list for player p naming its own id, the GM's id (always in its
\* directory) and the other player twice
OfferListFor(p) ==
  LET o == CHOOSE x \in Guests : x # p
      offer(x) == Desc("offer", <<x, Template>>)
  IN P2POfferList(<< <<p, offer(p)>>, <<GM, offer(GM)>>, <<o, offer(o)>>, <<o, offer(o)>> >>)

(***************************************************************************)
(* The reducer on a board of its own (new BoardState(): layers = [])       *)
(***************************************************************************)
\* eventHandler.handleEvent(event) on the board of p, outside any session
HandleEvent(p, event) ==
  /\ role[p] = "idle"
  /\ ops < MaxEvents
  /\ ops' = ops + 1
  /\ IF Throws(layers[p], event)
     THEN /\ last' = Step("handleEventError", p, Null, NoMsg, {}, event)
          /\ UNCHANGED docVars
     ELSE /\ ApplyEvent(p, event, TRUE)
          /\ last' = Step("handleEvent", p, Null, NoMsg, {}, event)
  /\ UNCHANGED <<sessionVars, netVars, nextNpc, nextOid, connEvents>>

\* well-formed events of every kind of the reducer, over the ids of the
\* player layer, of two tokens, and of a layer and a token that never exist
EventTokenIds == {"token_n1", "token_zz"}
EventTokens ==
  {Token("token_n1", 50, 50, "purple", Null), Token("token_n1", 100, 100, "red", "g2"),
   Token("token_n2", 50, 50, "purple", Null)}
EventBatches ==
  { <<>>,
    << Change(PlayerLayerId, "token_n1", "g1") >>,
    << Change(PlayerLayerId, "token_n1", "g1"), Change(PlayerLayerId, "token_n1", Null) >>,
    << Change(PlayerLayerId, "token_n1", "g2"), Change(PlayerLayerId, "token_n2", "g2") >>,
    << Change("layer_zz", "token_n1", "g1") >>,
    << Change(PlayerLayerId, "token_zz", "g1") >> }
EventBackground == [url |-> "map.png", x |-> 0, y |-> 0, scale |-> 1]

ReducerEvents ==
  {GameStateUpdate(board) : board \in SavedBoards \cup {<<>>}}
  \cup {TokenMoved(l, t, 300, 50) : l \in LayerIds, t \in EventTokenIds}
  \cup {TokenDeleted(l, t) : l \in LayerIds, t \in EventTokenIds}
  \cup {TokenAdded(l, td) : l \in LayerIds, td \in EventTokens}
  \cup {TokenPropertyChanged(l, t, "red") : l \in LayerIds, t \in EventTokenIds}
  \cup {TokenOwnershipChanged(changes) : changes \in EventBatches}
  \cup {PlayerDisconnectedUpdate(t, changes) :
          t \in {"token_g1", "token_zz"},
          changes \in { <<>>, << Change(PlayerLayerId, "token_n1", Null) >>,
                        << Change(PlayerLayerId, "token_zz", Null) >> }}
  \cup {LayerAdded(Layer(0, PlayerLayerId, "Layer 2", <<>>))}
  \cup {LayerDeleted(l) : l \in LayerIds}
  \cup {LayerVisibilityChanged(l, FALSE) : l \in LayerIds}
  \cup {LayerRenamed(l, "Map") : l \in LayerIds}
  \cup {LayerBackgroundChanged(l, EventBackground) : l \in LayerIds}
  \cup {LayerBackgroundCleared(l) : l \in LayerIds}
  \cup {LayerBackgroundScaled(l, 2) : l \in LayerIds}
  \cup {LayerBackgroundMoved(l, 10, 10) : l \in LayerIds}
  \cup {Ping(300, 50)}

(***************************************************************************)
(* Specification                                                           *)
(***************************************************************************)
\* session formation with both players, no board operations, no departures
NextMesh ==
  \/ \E inv \in InviteIds : CreateInvite(inv)
  \/ \E inv \in InviteIds : CreateInviteDone(inv)
  \/ \E g \in Guests, payload \in invites : ProcessInvite(g, payload)
  \/ \E g \in Guests : ProcessInviteDone(g)
  \/ \E payload \in answers : ProcessAnswer(payload)
  \/ \E l \in LinkIds : ChannelOpen(l)
  \/ \E l \in LinkIds : Deliver(l)
  \/ \E g \in Guests : P2POfferDone(g)
  \/ \E g \in Guests, o \in Guests : P2PAnswerDone(g, o)

SpecMesh == Init /\ [][NextMesh]_vars

\* session formation with both players, who may leave at any moment
NextRelay ==
  \/ NextMesh
  \/ \E g \in Guests : GuestLeaves(g)
  \/ \E l \in LinkIds, state \in TerminalStates : ConnectionStateChange(l, state)

SpecRelay == Init /\ [][NextRelay]_vars

\* session formation with both players; player g2 is also sent offer lists
\* it did not ask for
NextOfferList ==
  \/ NextMesh
  \/ UnexpectedMessage(<<"g2", GM>>, OfferListFor("g2"))

SpecOfferList == Init /\ [][NextOfferList]_vars

\* session formation with both players, with what the code's scheduling
\* guarantees: createInvite resumes when a candidate arrives or when its
\* 5-second timer fires, open channels deliver, and connectable channels
\* open. The other three waits resume only when the browser reports the end
\* of candidate gathering (e.candidate === null), which nothing guarantees.
SpecGather ==
  /\ Init /\ [][NextMesh]_vars
  /\ \A inv \in InviteIds : WF_vars(CreateInviteDone(inv))
  /\ \A l \in LinkIds : WF_vars(ChannelOpen(l)) /\ WF_vars(Deliver(l))

\* session formation with both players in a run without failures: channels
\* that can open do open, queued messages are delivered, and the candidate
\* gathering of every offer and answer ends (the users' steps are left to
\* the users)
SpecOffers ==
  /\ Init /\ [][NextMesh]_vars
  /\ \A l \in LinkIds : WF_vars(ChannelOpen(l)) /\ WF_vars(Deliver(l))
  /\ \A g \in Guests : WF_vars(ProcessInviteDone(g)) /\ WF_vars(P2POfferDone(g))
  /\ \A g \in Guests, o \in Guests : WF_vars(P2PAnswerDone(g, o))

\* session formation with both players, in which every step that captures
\* media or generates an offer or an answer may throw
NextFail ==
  \/ NextMesh
  \/ \E inv \in InviteIds : CreateInviteFail(inv)
  \/ \E g \in Guests : ProcessInviteFail(g)
  \/ \E g \in Guests, o \in Guests : P2PAnswerFail(g, o)

SpecFail == Init /\ [][NextFail]_vars

\* session formation with both players and their introductions, while the
\* GM adds a token at any moment and starts dragging it
NextSync ==
  \/ NextMesh
  \/ (nextNpc = 0 /\ HostAddNpc(PlayerLayerId))
  \/ MouseDown(GM, PlayerLayerId, "token_n1")
  \/ MouseMove(GM, <<300, 50>>)

SpecSync == Init /\ [][NextSync]_vars

\* what the GM may paste into the answer box: a player's answer blob, under
\* the invite id it was made for or under another one
PastedAnswers ==
  {AnswerPayload(inv, a.from, a.answer) : inv \in InviteIds, a \in answers}

\* session formation with both players, the GM pasting any answer blob
NextAnswer ==
  \/ \E inv \in InviteIds : CreateInvite(inv)
  \/ \E inv \in InviteIds : CreateInviteDone(inv)
  \/ \E g \in Guests, payload \in invites : ProcessInvite(g, payload)
  \/ \E g \in Guests : ProcessInviteDone(g)
  \/ \E payload \in PastedAnswers : ProcessAnswer(payload)
  \/ \E l \in LinkIds : ChannelOpen(l)
  \/ \E l \in LinkIds : Deliver(l)
  \/ \E g \in Guests : P2POfferDone(g)

SpecAnswer == Init /\ [][NextAnswer]_vars

\* session formation with the GM pasting any answer blob, so that a
\* participant's directory entry may be replaced by a newer link; players
\* leave and links report terminal states
NextReplace ==
  \/ NextAnswer
  \/ \E g \in Guests : GuestLeaves(g)
  \/ \E l \in LinkIds, state \in TerminalStates : ConnectionStateChange(l, state)

SpecReplace == Init /\ [][NextReplace]_vars

\* the reducer alone: every sequence of events on an empty board
Standalone == "g1"
NextReducer == \E event \in ReducerEvents : HandleEvent(Standalone, event)

SpecReducer == Init /\ [][NextReducer]_vars

(***************************************************************************)
(* Proximity audio on a page of its own                                    *)
(***************************************************************************)
\* the peers that have an audio element on the page under study
AudioPeers == {"g2", GM}
\* positions of the slider (step 0.05) and a slider never moved
UserMaxima == {NoVolume, One, Rat(1, 2), Zero}

\* updateDistanceBasedAudio() on the page of p, with session.peerVolumes as
\* given: every audio element gets its volume
UpdateDistanceBasedAudio(p, peerVolumes) ==
  /\ role[p] = "idle"
  /\ last' = Step("updateDistanceBasedAudio", p, Null, NoMsg, {}, NoMsg) @@
               [peerVolumes |-> peerVolumes,
                volume |-> [peerId \in AudioPeers |->
                              volumeOf(layers[p], p, peerId, peerVolumes)]]
  /\ UNCHANGED <<sessionVars, docVars, netVars, counters>>

\* token positions at distances 0, 40, 80, 200, 400, 600, 1000, 1200 and
\* 1240 from the origin
AudioPositions ==
  {<<0, 0>>, <<24, 32>>, <<48, 64>>, <<120, 160>>, <<240, 320>>, <<600, 0>>,
   <<600, 800>>, <<720, 960>>, <<1240, 0>>}

\* a board with the local participant's token at the origin and the token of
\* player g2 put and moved anywhere
AudioEvents ==
  {LayerAdded(Layer(0, PlayerLayerId, "Player Layer", <<>>))}
  \cup {TokenAdded(PlayerLayerId, Token("token_n1", 0, 0, "purple", Standalone))}
  \cup {TokenAdded(PlayerLayerId, Token("token_n2", pt[1], pt[2], "red", "g2")) :
          pt \in AudioPositions}
  \cup {TokenMoved(PlayerLayerId, "token_n2", pt[1], pt[2]) : pt \in AudioPositions}

NextAudio ==
  \/ \E event \in AudioEvents : HandleEvent(Standalone, event)
  \/ \E peerVolumes \in [AudioPeers -> UserMaxima] :
       UpdateDistanceBasedAudio(Standalone, peerVolumes)

SpecAudio == Init /\ [][NextAudio]_vars

\* the GM and one player: token moves by dragging and by request
OneGuest == {"g1"}
OneInvite == {"inv1"}
OneTarget == {<<PlayerLayerId, "token_n1">>}

JoinOne ==
  \/ \E inv \in OneInvite : CreateInvite(inv)
  \/ \E inv \in OneInvite : CreateInviteDone(inv)
  \/ \E g \in OneGuest, payload \in invites : ProcessInvite(g, payload)
  \/ \E g \in OneGuest : ProcessInviteDone(g)
  \/ \E payload \in answers : ProcessAnswer(payload)
  \/ \E l \in LinkIds : ChannelOpen(l)
  \/ \E l \in LinkIds : Deliver(l)
  \/ \E g \in OneGuest : P2POfferDone(g)

\* messages whose type the receiving role does not handle: to a player a
\* request, an offer and a type outside the protocol; to the GM a request
\* for an offer, an offer list naming a participant it has no link to, and a
\* type outside the protocol
StrayOffer == Desc("offer", <<"g2", Template>>)
ToPlayer ==
  {TokenMoveRequest(PlayerLayerId, "token_n1", 300, 50), P2POffer(StrayOffer), Msg("chat")}
ToHost ==
  {RequestP2POffer, P2POfferList(<< <<"g2", StrayOffer>> >>), Msg("chat")}

\* session formation with one player, each end also receiving messages of
\* types meant for the other role
NextRole ==
  \/ JoinOne
  \/ \E msg \in ToPlayer : UnexpectedMessage(<<"g1", GM>>, msg)
  \/ \E msg \in ToHost : UnexpectedMessage(HostLink("inv1"), msg)
  \/ \E p \in Participants, o \in Guests : P2PAnswerDone(p, o)

SpecRole == Init /\ [][NextRole]_vars

\* the GM and one player: session formation while the GM adds tokens; the
\* steps that the browser's event loop and the open channel carry out are
\* taken eventually (opening the invite, pasting the answer and adding
\* tokens are left to the users)
NextPair == JoinOne \/ HostAddNpc(PlayerLayerId)

SpecPair ==
  /\ Init /\ [][NextPair]_vars
  /\ \A l \in LinkIds : WF_vars(ChannelOpen(l)) /\ WF_vars(Deliver(l))
  /\ \A g \in OneGuest : WF_vars(ProcessInviteDone(g)) /\ WF_vars(P2POfferDone(g))

NextMove ==
  \/ JoinOne
  \/ \E layerId \in {PlayerLayerId} : HostAddNpc(layerId)
  \/ \E g \in OneGuest, target \in OneTarget \cup {<<PlayerLayerId, "token_zz">>},
        pt \in MovePoints : SendTokenMoveRequest(g, target, pt)
  \/ \E p \in {GM} \cup OneGuest, layerId \in {PlayerLayerId}, tokenId \in {"token_n1"} :
       MouseDown(p, layerId, tokenId)
  \/ \E p \in {GM} \cup OneGuest, pt \in MovePoints : MouseMove(p, pt)
  \/ \E p \in {GM} \cup OneGuest, button \in {"click", "drag", "right"}, pt \in MovePoints :
       MouseUp(p, button, pt)

SpecMove == Init /\ [][NextMove]_vars

\* the GM and both players, the introductions between players still gathering
\* candidates: requests of the players and the GM's own actions
JoinBoth ==
  \/ \E inv \in InviteIds : CreateInvite(inv)
  \/ \E inv \in InviteIds : CreateInviteDone(inv)
  \/ \E g \in Guests, payload \in invites : ProcessInvite(g, payload)
  \/ \E g \in Guests : ProcessInviteDone(g)
  \/ \E payload \in answers : ProcessAnswer(payload)
  \/ \E l \in LinkIds : ChannelOpen(l)
  \/ \E l \in LinkIds : Deliver(l)

\* the player's link to the GM and the GM's link to the player are open
Joined(g) ==
  /\ role[g] = "player"
  /\ peers[g][GM] # NoLink /\ links[peers[g][GM]].chan = "open"
  /\ peers[GM][g] # NoLink /\ links[peers[GM][g]].chan = "open"

\* the data channel of link l has opened (it may have closed since)
Opened(l) == links[l].chan \in {"open", "closed"}

\* both players have joined (they may have left since)
AllJoined ==
  \A g \in Guests :
    /\ role[g] \in {"player", "gone"}
    /\ Opened(<<g, GM>>)
    /\ \E inv \in InviteIds : links[HostLink(inv)].handler = g /\ Opened(HostLink(inv))

JoinTypes == {"game-state-update", "request-p2p-offer"}

\* ... and the messages of the join have been handled
Formed ==
  /\ AllJoined
  /\ \A l \in LinkIds : \A i \in DOMAIN chan[l] : chan[l][i].type \notin JoinTypes

Known == <<PlayerLayerId, "token_n1">>
UnknownToken == <<PlayerLayerId, "token_zz">>
UnknownLayer == <<"layer_zz", "token_n1">>

\* session formation with both players while the GM adds a token, whether
\* or not the channels are open yet, and player g1 asks for moves before
\* its channel to the GM is open
NextSend ==
  \/ JoinBoth
  \/ (nextNpc = 0 /\ HostAddNpc(PlayerLayerId))
  \/ (~Joined("g1") /\ SendTokenMoveRequest("g1", Known, <<300, 50>>))

SpecSend == Init /\ [][NextSend]_vars

\* session formation with both players; player g1 sends requests of every
\* kind, each when nothing is in flight, once its directory holds a link to
\* the other player or has lost its link to the GM (a player's processInvite
\* may fail, which removes it)
MeshOrNoHost(g) ==
  /\ tasks = {} /\ \A l \in LinkIds : chan[l] = <<>>
  /\ \/ peers[g][GM] = NoLink
     \/ \E o \in Guests : peers[g][o] # NoLink

NextGuestSend ==
  \/ NextMesh
  \/ \E g \in Guests : ProcessInviteFail(g)
  \/ (MeshOrNoHost("g1") /\ SendTokenMoveRequest("g1", Known, <<300, 50>>))
  \/ (MeshOrNoHost("g1") /\ SendClaimTokenRequest("g1", Known))
  \/ (MeshOrNoHost("g1") /\ SendUnclaimTokenRequest("g1", Known))
  \/ (MeshOrNoHost("g1") /\ SendTokenColorChangeRequest("g1", Known, "red"))

SpecGuestSend == Init /\ [][NextGuestSend]_vars

\* the GM prepares the board before it invites anybody
BoardSetup == invites = {} /\ \A k \in Keys : peers[GM][k] = NoLink

\* the GM adds one NPC; a player sends move requests once it has joined,
\* while the other player may still be joining
NextRequest ==
  \/ JoinBoth
  \/ (BoardSetup /\ nextNpc = 0 /\ HostAddNpc(PlayerLayerId))
  \/ \E g \in Guests : Joined(g) /\ SendTokenMoveRequest(g, Known, <<300, 50>>)
  \/ \E target \in {UnknownToken, UnknownLayer} :
       Joined("g1") /\ SendTokenMoveRequest("g1", target, <<300, 50>>)

SpecRequest == Init /\ [][NextRequest]_vars

\* requests that the GM has to validate: claims, unclaims and colour changes
\* naming known and unknown targets
NextValidate ==
  \/ JoinBoth
  \/ (nextNpc = 0 /\ HostAddNpc(PlayerLayerId))
  \/ (Formed /\ \E g \in Guests : SendClaimTokenRequest(g, Known))
  \/ (Formed /\ SendClaimTokenRequest("g1", UnknownToken))
  \/ (Formed /\ \E target \in {Known, UnknownLayer} : SendUnclaimTokenRequest("g1", target))
  \/ (Formed /\ SendTokenColorChangeRequest("g1", UnknownToken, "red"))

SpecValidate == Init /\ [][NextValidate]_vars

\* showTokenContextMenu on p: the claim item is shown for a token of p's
\* document that has no owner
ClaimOffered(p, target) ==
  LET f == findToken(layers[p], target[1], target[2]) IN
  /\ f # <<0, 0>>
  /\ layers[p][f[1]].tokens[f[2]].peerId = Null

\* both players have joined, the GM has added a token, and each player may
\* claim it from the menu while its own document shows it without an owner
NextClaimRace ==
  \/ JoinBoth
  \/ (nextNpc = 0 /\ HostAddNpc(PlayerLayerId))
  \/ \E g \in Guests : Formed /\ ClaimOffered(g, Known) /\ SendClaimTokenRequest(g, Known)

SpecClaimRace == Init /\ [][NextClaimRace]_vars

\* the GM and one player with voice: the GM loads a board on which the player
\* owns tokens, claims a token and drags it, while tracks arrive and both
\* move their volume sliders
NextProximity ==
  \/ JoinOne
  \/ \E board \in SavedBoards : HostLoadBoard(board)
  \/ HostClaim(PlayerLayerId, "token_n1")
  \/ MouseDown(GM, PlayerLayerId, "token_n1")
  \/ MouseMove(GM, <<300, 50>>)
  \/ MouseUp(GM, "drag", <<300, 50>>)
  \/ \E l \in LinkIds : OnTrack(l)
  \/ \E p \in {GM} \cup OneGuest, peerId \in {GM} \cup OneGuest, value \in SliderValues :
       VolumeSliderInput(p, peerId, value)

SpecProximity == Init /\ [][NextProximity]_vars

\* the GM and one player: claims and unclaims by both, and the player's
\* departure
Npc1 == <<PlayerLayerId, "token_n1">>
Npc2 == <<PlayerLayerId, "token_n2">>

NextClaim ==
  \/ JoinOne
  \/ HostAddNpc(PlayerLayerId)
  \/ \E g \in OneGuest, target \in {Npc1, Npc2} : SendClaimTokenRequest(g, target)
  \/ \E g \in OneGuest, target \in {Npc1} : SendUnclaimTokenRequest(g, target)
  \/ \E target \in {Npc1, Npc2} : HostClaim(target[1], target[2])
  \/ \E target \in {Npc1} : HostUnclaim(target[1], target[2])
  \/ \E g \in OneGuest : GuestLeaves(g)
  \/ \E l \in LinkIds, state \in TerminalStates : ConnectionStateChange(l, state)

SpecClaim == Init /\ [][NextClaim]_vars

\* a board is loaded or imported, players join and leave
NextLeave ==
  \/ JoinBoth
  \/ \E board \in SavedBoards : HostLoadBoard(board)
  \/ (Formed /\ \E g \in Guests : GuestLeaves(g))
  \/ \E l \in LinkIds, state \in TerminalStates : ConnectionStateChange(l, state)

SpecLeave == Init /\ [][NextLeave]_vars

(***************************************************************************)
(* Properties                                                              *)
(***************************************************************************)
\* nothing is in flight and no async function is suspended
Quiet == (\A l \in LinkIds : chan[l] = <<>>) /\ tasks = {}

\* a completed handshake between two players: a link of one has the other's
\* answer applied to it, and that answer was made for its offer
DirectLinks ==
  {l \in LinkIds :
     /\ Owner(l) \in Guests
     /\ Connectable(links, l)
     /\ Owner(links[l].remote) \in Guests
     /\ Owner(links[l].remote) # Owner(l)}

LinkedPairs == {{Owner(l), Owner(links[l].remote)} : l \in DirectLinks}

\* C1: mesh completeness. Once the GM has admitted the k players and every
\* message has been delivered and handled, there are exactly k(k-1)/2 direct
\* player-player links, one per pair (each link has two ends).
C1_MeshComplete ==
  ((\A g \in Guests : Joined(g)) /\ Quiet)
    => /\ Cardinality(LinkedPairs) = (Cardinality(Guests) * (Cardinality(Guests) - 1)) \div 2
       /\ Cardinality(DirectLinks) = 2 * Cardinality(LinkedPairs)

\* the steps of a token move made with the mouse on participant p
LocalMoveOps == {"mouseMove", "mouseUp", "tokenMoveRequested"}

\* C2: a player that moves a token with the mouse does not change its own
\* document in that step, neither while dragging nor on release; what it sends
\* is a token-move-request to the GM, and nothing else.
C2_GuestMoveByRequestOnly ==
  [][\A g \in Guests :
       (last'.who = g /\ last'.op \in LocalMoveOps)
         => /\ layers'[g] = layers[g]
            /\ \A s \in last'.sent :
                  s.msg.type = "token-move-request" /\ s.to = peers[g][GM]
            /\ (last'.op = "tokenMoveRequested" => last'.sent # {})]_vars

\* C3: a state event that arrives at the GM from a player's link never
\* changes the GM's document.
C3_HostSingleWriter ==
  [][(last'.op = "message" /\ last'.who = GM /\ last'.msg.type \in StateEventTypes)
       => layers'[GM] = layers[GM]]_vars

\* C4: a player's document changes only by applying a state event received
\* on the player's link to the GM.
C4_GuestWritesFromHostOnly ==
  [][\A g \in Guests :
       layers'[g] # layers[g]
         => /\ last'.op = "message" /\ last'.who = g
            /\ last'.peer = GM
            /\ last'.msg.type \in StateEventTypes]_vars

\* nobody is in the middle of a drag
NoDragging == \A p \in Participants : ~drag[p].on

\* C5: convergence. With no link failure, once every message has been
\* delivered and handled (and no drag is in progress), the layers and tokens
\* of every joined player's document equal those of the GM's document.
C5_Converged ==
  (Quiet /\ NoDragging)
    => \A g \in Guests : Joined(g) => StripOids(layers[g]) = StripOids(layers[GM])

\* the owner of a token of the GM's document (Null when there is none)
OwnerOf(doc, layerId, tokenId) ==
  LET f == findToken(doc, layerId, tokenId) IN
  IF f = <<0, 0>> THEN Null ELSE doc[f[1]].tokens[f[2]].peerId

\* the step just taken handled a request of the given kinds on the GM
HandledRequest(step, types) ==
  step.op = "message" /\ step.who = GM /\ step.msg.type \in types

\* the last message queued for the other end of link l
LastQueued(ch, l) ==
  LET q == ch[links[l].remote] IN IF q = <<>> THEN NoMsg ELSE q[Len(q)]

\* C6: when the GM handles a token-move-request of player G whose target
\* exists, it applies token-moved to its own document and sends that same
\* event on every link of its directory (the send goes through on every link
\* whose channel is open), the link of G included.
C6_ValidMoveRequestBroadcast ==
  [][(HandledRequest(last', {"token-move-request"})
      /\ hasToken(layers[GM], last'.msg.layerId, last'.msg.tokenId))
       => LET m == last'.msg
              ev == TokenMoved(m.layerId, m.tokenId, m.x, m.y)
              f == findToken(layers'[GM], m.layerId, m.tokenId)
              gl == peers[GM][last'.peer]
          IN /\ last'.event = ev
             /\ f # <<0, 0>>
             /\ layers'[GM][f[1]].tokens[f[2]].x = m.x
             /\ layers'[GM][f[1]].tokens[f[2]].y = m.y
             /\ \A k \in Keys :
                  peers[GM][k] # NoLink
                    => [to |-> peers[GM][k], msg |-> ev,
                        ok |-> links[peers[GM][k]].chan = "open"] \in last'.sent
             /\ \A g \in Guests :
                  Joined(g) => LastQueued(chan', peers[GM][g]) = ev
             /\ gl # NoLink
             /\ [to |-> gl, msg |-> ev, ok |-> TRUE] \in last'.sent
             /\ LastQueued(chan', gl) = ev]_vars

\* a valid move request of one player has been answered with a broadcast to
\* both players
C6_Witness ==
  /\ HandledRequest(last, {"token-move-request"})
  /\ last.event.type = "token-moved"
  /\ hasToken(layers[GM], last.msg.layerId, last.msg.tokenId)
  /\ {s.to : s \in last.sent} = {peers[GM][g] : g \in Guests}
  /\ \A g \in Guests : peers[GM][g] # NoLink

\* C7: a request of a player whose target (layer or token) does not exist in
\* the GM's document is rejected: the GM's document is unchanged and nothing
\* is broadcast.
C7_UnknownTargetRejected ==
  [][(HandledRequest(last', RequestTypes)
      /\ ~hasToken(layers[GM], last'.msg.layerId, last'.msg.tokenId))
       => /\ layers'[GM] = layers[GM]
          /\ last'.sent = {}
          /\ last'.event = NoMsg]_vars

\* C8: an unclaim-token-request of player G for a token whose owner is not G
\* is rejected: the owner is unchanged and no token-ownership-changed event
\* is broadcast.
C8_UnclaimByNonOwnerRejected ==
  [][(HandledRequest(last', {"unclaim-token-request"})
      /\ hasToken(layers[GM], last'.msg.layerId, last'.msg.tokenId)
      /\ OwnerOf(layers[GM], last'.msg.layerId, last'.msg.tokenId) # last'.peer)
       => /\ layers'[GM] = layers[GM]
          /\ last'.sent = {}
          /\ last'.event = NoMsg
          /\ \A l \in LinkIds : \A i \in DOMAIN chan'[l] :
               chan'[l][i].type = "token-ownership-changed"
                 => \E j \in DOMAIN chan[l] : chan[l][j] = chan'[l][i]]_vars

\* player g1 has asked to unclaim the token that player g2 owns, and the GM
\* has handled the request
C8_Witness ==
  /\ HandledRequest(last, {"unclaim-token-request"})
  /\ last.peer = "g1"
  /\ OwnerOf(layers[GM], last.msg.layerId, last.msg.tokenId) = "g2"

\* the tokens of a document that participant p owns
Owned(doc, p) ==
  LET ts == allTokens(doc) IN {ts[i].id : i \in {j \in DOMAIN ts : ts[j].peerId = p}}

\* C9: in the GM's document every participant owns at most one token, over
\* all layers, whatever joins, claims and unclaims by the GM and by players,
\* and departures have happened.
C9_OneTokenPerOwner ==
  \A p \in Participants : Cardinality(Owned(layers[GM], p)) <= 1

\* a player that owned one token has claimed another one: the GM's answer
\* released the first and gave it the second
C9_Witness ==
  /\ HandledRequest(last, {"claim-token-request"})
  /\ Len(last.event.changes) = 2
  /\ last.event.changes[1].newOwner = Null
  /\ last.event.changes[2].newOwner = last.peer
  /\ Owned(layers[GM], last.peer) = {last.msg.tokenId}

\* the ids of the tokens of a document
TokenIdsOf(doc) == LET ts == allTokens(doc) IN {ts[i].id : i \in DOMAIN ts}

\* player X owns its player token and at least one other token
OwnsBoth(doc, X) ==
  /\ PlayerTokenId(X) \in Owned(doc, X)
  /\ Owned(doc, X) \ {PlayerTokenId(X)} # {}

\* the document has neither the player token of X nor a token owned by X
Cleared(doc, X) == PlayerTokenId(X) \notin TokenIdsOf(doc) /\ Owned(doc, X) = {}

\* C10: when player X, owner of token_X and of another token T, departs, the
\* GM sends every remaining participant one player-disconnected-update that
\* carries the removal of token_X and the unclaiming of T, and every
\* participant applies both in one step: after the step the document has
\* neither token_X nor a token owned by X.
C10_DepartureAtomic ==
  [][\A X \in Guests :
       /\ (last'.op = "connectionstatechange" /\ last'.who = GM /\ last'.peer = X
            /\ OwnsBoth(layers[GM], X))
             => /\ last'.event.type = "player-disconnected-update"
                /\ last'.event.removedTokenId = PlayerTokenId(X)
                /\ {c.tokenId : c \in Range(last'.event.changes)}
                     = Owned(layers[GM], X) \ {PlayerTokenId(X)}
                /\ \A k \in Keys \ {X} :
                     peers[GM][k] # NoLink
                       => /\ \E s \in last'.sent : s.to = peers[GM][k] /\ s.msg = last'.event
                          /\ CanSend(links, peers[GM][k])
                               => Len(chan'[links[peers[GM][k]].remote])
                                    = Len(chan[links[peers[GM][k]].remote]) + 1
                /\ Cleared(layers'[GM], X)
       /\ \A p \in Guests :
            (last'.op = "message" /\ last'.who = p
             /\ last'.msg.type = "player-disconnected-update"
             /\ last'.msg.removedTokenId = PlayerTokenId(X)
             /\ OwnsBoth(layers[p], X))
              => Cleared(layers'[p], X)]_vars

\* the step just taken was the GM's handler of a terminal connection state
\* of the link to player P
HandledDeparture(step, P) ==
  step.op = "connectionstatechange" /\ step.who = GM /\ step.peer = P

\* C11: once the GM has processed the terminal state of player P's link, P is
\* not a key of the GM's directory, P has no offer in the pool, and no token of
\* the GM's document is owned by P, whatever happened before the departure
\* (a board load included).
C11_NoGhostOwner ==
  \A P \in Guests :
    HandledDeparture(last, P)
      => /\ peers[GM][P] = NoLink
         /\ p2pOffers[P] = NoDesc
         /\ Owned(layers[GM], P) = {}

\* the GM's link to player P had already reported a terminal state before
\* this step, and reports another one in this step
SecondTerminalState(P) ==
  \E l \in LinkIds :
    /\ Owner(l) = GM /\ links[l].handler = P
    /\ links[l].conn \in TerminalStates
    /\ links'[l].conn \in TerminalStates
    /\ links'[l].conn # links[l].conn

\* C12: the departure cleanup of a link runs once: when a link that has
\* already reported a terminal state reports another one, the GM does not
\* broadcast a second player-disconnected-update.
C12_CleanupOnce ==
  [][\A P \in Guests :
       (HandledDeparture(last', P) /\ SecondTerminalState(P))
         => (last'.event = NoMsg /\ last'.sent = {})]_vars

\* the step was processAnswer (it succeeded or it threw)
AnswerStep(step) == step.op \in {"processAnswer", "processAnswerError"}

\* no link is stored under an invite id and under a participant id at once
NoDoubleKey ==
  \A I \in InviteIds, P \in Guests :
    peers[GM][I] # NoLink => peers[GM][I] # peers[GM][P]

\* C13: after the GM has processed an answer carrying invite id I and player
\* id P, the directory has no entry for I and holds under P the very link
\* that was created for invite I; in no state is one link stored under both
\* an invite id and a participant id.
C13_RekeyOnAnswer ==
  /\ []NoDoubleKey
  /\ [][last'.op = "processAnswer"
         => LET I == last'.msg.inviteId
                P == last'.msg.from
            IN /\ peers[GM][I] = HostLink(I)
               /\ peers'[GM][I] = NoLink
               /\ peers'[GM][P] = HostLink(I)]_vars

C13_Witness ==
  /\ last.op = "processAnswer"
  /\ peers[GM][last.msg.from] = HostLink(last.msg.inviteId)
  /\ peers[GM][last.msg.inviteId] = NoLink

\* C14: when the player id of an answer is already a key of the directory,
\* processing the answer fails and leaves the directory unchanged.
C14_RekeyFailsWhenTaken ==
  [][(AnswerStep(last') /\ peers[GM][last'.msg.from] # NoLink)
       => (last'.op = "processAnswerError" /\ peers' = peers)]_vars

\* C15: an answer whose invite id is not a key of the directory ends in the
\* error outcome and changes nothing: directory, offer pool, documents, links
\* and channels stay as they were; an answer for a pending invite that
\* follows the failure is processed.
C15_UnknownInviteRejected ==
  /\ [][(AnswerStep(last') /\ peers[GM][last'.msg.inviteId] = NoLink)
          => /\ last'.op = "processAnswerError"
             /\ UNCHANGED <<sessionVars, docVars, netVars, counters>>]_vars
  /\ [][(last.op = "processAnswerError" /\ AnswerStep(last')
           /\ peers[GM][last'.msg.inviteId] # NoLink)
          => /\ last'.op = "processAnswer"
             /\ peers'[GM][last'.msg.from] = peers[GM][last'.msg.inviteId]]_vars

\* the blob of a joined player was pasted a second time while another
\* invite is still pending
C15_Witness ==
  /\ last.op = "processAnswerError"
  /\ peers[GM][last.msg.from] # NoLink
  /\ last.msg.answer.link = links[peers[GM][last.msg.from]].remote
  /\ \E inv \in InviteIds : peers[GM][inv] # NoLink

\* the step applied an event to the stand-alone board
Reduced(step) == step.who = Standalone /\ step.op \in {"handleEvent", "handleEventError"}

\* the ids the event names are not in the document: the token for the token
\* events (the layer for token-added), every token of a batch, the layer for
\* the layer events
TargetAbsent(doc, event) ==
  CASE event.type \in {"token-moved", "token-deleted", "token-property-changed"} ->
         ~hasToken(doc, event.layerId, event.tokenId)
    [] event.type = "token-added" -> findLayer(doc, event.layerId) = 0
    [] event.type = "token-ownership-changed" ->
         \A i \in DOMAIN event.changes :
           ~hasToken(doc, event.changes[i].layerId, event.changes[i].tokenId)
    [] event.type = "player-disconnected-update" ->
         /\ \A i \in DOMAIN doc : \A j \in DOMAIN doc[i].tokens :
              doc[i].tokens[j].id # event.removedTokenId
         /\ \A i \in DOMAIN event.changes :
              ~hasToken(doc, event.changes[i].layerId, event.changes[i].tokenId)
    [] event.type \in {"layer-deleted", "layer-visibility-changed", "layer-renamed",
                       "layer-background-changed", "layer-background-cleared",
                       "layer-background-scaled", "layer-background-moved"} ->
         findLayer(doc, event.layerId) = 0
    [] OTHER -> FALSE

\* C16: starting from the empty document, no well-formed event of any kind
\* of the reducer raises, and an event whose target ids are not in the
\* document leaves the layers and their tokens as they were.
C16_ReducerTotal ==
  [][Reduced(last')
       => /\ last'.op = "handleEvent"
          /\ TargetAbsent(layers[Standalone], last'.event)
               => layers'[Standalone] = layers[Standalone]]_vars

\* a move naming an unknown token of an existing layer was applied
C16_Witness ==
  /\ last.op = "handleEvent" /\ last.who = Standalone
  /\ last.event.type = "token-moved" /\ last.event.tokenId = "token_zz"
  /\ findLayer(layers[Standalone], last.event.layerId) # 0
  /\ allTokens(layers[Standalone]) # <<>>

UniqueTokenIds(doc) ==
  \A i \in DOMAIN doc : \A j, k \in DOMAIN doc[i].tokens :
    doc[i].tokens[j].id = doc[i].tokens[k].id => j = k

\* C17: a token-added event whose token id is already in the target layer
\* leaves the document unchanged; applying the same token-added event again
\* changes nothing; token-added keeps token ids unique within every layer.
C17_TokenAddedIdempotent ==
  [][(Reduced(last') /\ last'.event.type = "token-added")
       => LET e == last'.event
              before == layers[Standalone]
              after == layers'[Standalone]
          IN /\ hasToken(before, e.layerId, e.tokenData.id) => after = before
             /\ handleEvent(after, e) = after
             /\ UniqueTokenIds(before) => UniqueTokenIds(after)]_vars

\* a token-added event was applied whose id is held by a different token
C17_Witness ==
  /\ last.op = "handleEvent" /\ last.who = Standalone
  /\ last.event.type = "token-added"
  /\ LET f == findToken(layers[Standalone], last.event.layerId, last.event.tokenData.id)
     IN f # <<0, 0>> /\ layers[Standalone][f[1]].tokens[f[2]] # last.event.tokenData

\* C18: applying a token-ownership-changed event a second time changes
\* nothing, for every document and every batch of changes.
C18_OwnershipChangedIdempotent ==
  [][(Reduced(last') /\ last'.event.type = "token-ownership-changed")
       => handleEvent(layers'[Standalone], last'.event) = layers'[Standalone]]_vars

\* a batch naming one token twice was applied to a document holding it
C18_Witness ==
  /\ last.op = "handleEvent" /\ last.who = Standalone
  /\ last.event.type = "token-ownership-changed"
  /\ Len(last.event.changes) = 2
  /\ last.event.changes[1].tokenId = last.event.changes[2].tokenId
  /\ hasToken(layers[Standalone], PlayerLayerId, "token_n1")
  /\ OwnerOf(layers[Standalone], PlayerLayerId, "token_n1") = Null

\* the GM's link to the one player, once the answer has been processed
PairLink == peers[GM]["g1"]
PairOpen == PairLink # NoLink /\ Opened(PairLink)

CountType(msgs, type) == Len(SeqFilter(msgs, LAMBDA m : m.type = type))

\* where the one offer exchange stands: the request in flight to the player,
\* the player generating the offer, the offer in flight to the GM, the offer
\* in the pool
RequestsInFlight == CountType(chan[<<"g1", GM>>], "request-p2p-offer")
OffersInMaking == Cardinality({t \in tasks : t.kind = "p2pOffer" /\ t.who = "g1"})
OffersInFlight == CountType(chan[HostLink("inv1")], "p2p-offer")
OffersPooled == Cardinality({q \in Participants : p2pOffers[q] # NoDesc})

OneExchange ==
  /\ RequestsInFlight + OffersInMaking + OffersInFlight + OffersPooled
       = (IF PairOpen THEN 1 ELSE 0)
  /\ \A q \in Participants : p2pOffers[q] # NoDesc
       => q = "g1" /\ p2pOffers[q] = Desc("offer", <<"g1", Template>>)
  /\ \A l \in LinkIds : CountType(chan[l], "p2p-offer-list") = 0

\* C19: with the GM and one player, the opening of the player's channel on
\* the GM makes the GM send request-p2p-offer to the player once, the player
\* answers with one offer, the GM ends up holding that offer under the
\* player's id and nothing else in the pool, and no offer list is sent to
\* anyone.
C19_PairOfferExchange ==
  /\ []OneExchange
  /\ [][\A s \in last'.sent : s.msg.type # "p2p-offer-list"]_vars
  /\ PairOpen ~> (p2pOffers["g1"] = Desc("offer", <<"g1", Template>>))

C19_Witness ==
  /\ last.op = "message" /\ last.who = GM /\ last.peer = "g1"
  /\ last.msg.type = "p2p-offer"
  /\ p2pOffers["g1"] = last.msg.offer
  /\ last.msg.offer # NoDesc

\* the GM handled a p2p-offer / the channel of a player opened on the GM
HandledOffer(step) == step.op = "message" /\ step.who = GM /\ step.msg.type = "p2p-offer"
OpenedOnHost(step) == step.op = "datachannelopen" /\ step.who = GM /\ step.peer \in Guests

OfferLists(sent) == {s \in sent : s.msg.type = "p2p-offer-list"}

\* C20: when the GM handles the offer of player G it stores the offer under
\* G's id and sends an offer list holding exactly the pair (G, offer) to
\* every other joined player and on no link of G; when G's channel opens on
\* the GM, G is sent one list holding exactly the offers pooled by the other
\* players (none when the pool is empty), never an offer of its own.
C20_OfferRelay ==
  [][/\ HandledOffer(last')
          => LET G == last'.peer
                 list == P2POfferList(<< <<G, last'.msg.offer>> >>)
             IN /\ p2pOffers' = [p2pOffers EXCEPT ![G] = last'.msg.offer]
                /\ \A s \in last'.sent : s.msg = list /\ links[s.to].handler # G
                /\ \A o \in Guests \ {G} :
                     Joined(o) => /\ [to |-> peers[GM][o], msg |-> list, ok |-> TRUE]
                                       \in last'.sent
                                  /\ LastQueued(chan', peers[GM][o]) = list
                /\ CountType(chan'[<<G, GM>>], "p2p-offer-list")
                     = CountType(chan[<<G, GM>>], "p2p-offer-list")
     /\ OpenedOnHost(last')
          => LET G == last'.peer
                 pool == {<<q, p2pOffers[q]>> :
                            q \in {x \in Participants \ {G} : p2pOffers[x] # NoDesc}}
                 lists == OfferLists(last'.sent)
             IN /\ p2pOffers[G] = NoDesc
                /\ IF pool = {} THEN lists = {}
                   ELSE \E s \in lists :
                          /\ lists = {s}
                          /\ s.to = peers[GM][G] /\ s.ok
                          /\ Range(s.msg.offers) = pool
                          /\ Len(s.msg.offers) = Cardinality(pool)]_vars

\* the offer of one player was forwarded to the other, joined player
C20_Witness ==
  /\ HandledOffer(last)
  /\ p2pOffers[last.peer] = last.msg.offer
  /\ \E s \in last.sent :
       /\ s.ok
       /\ s.msg = P2POfferList(<< <<last.peer, last.msg.offer>> >>)
       /\ links[s.to].handler \in Guests \ {last.peer}

\* the GM handled an answer to be relayed
HandledAnswerRelay(step) ==
  step.op = "message" /\ step.who = GM /\ step.msg.type = "p2p-answer"

\* C21: when the GM receives a p2p-answer addressed to T it sends that very
\* message on its link to T and on no other link when T is a key of its
\* directory (T gets it unless T has closed its page), and sends nothing
\* otherwise; nobody else is sent anything; the GM's directory, offer pool,
\* document and links stay as they were.
C21_AnswerRelayForwardsOnly ==
  [][HandledAnswerRelay(last')
       => LET m == last'.msg
              target == peers[GM][m.to]
          IN /\ IF target # NoLink
                THEN /\ last'.sent = {[to |-> target, msg |-> m,
                                       ok |-> links[target].chan = "open"]}
                     /\ (links[target].chan = "open" /\ role[m.to] = "player")
                          => LastQueued(chan', target) = m
                ELSE last'.sent = {}
             /\ \A l \in {x \in LinkIds : Owner(x) # GM} :
                  (target = NoLink \/ l # links[target].remote)
                    => chan'[l] = chan[l]
             /\ UNCHANGED <<peers, p2pOffers, links, layers, vtt>>]_vars

\* an answer was passed on to the player it is addressed to
C21_Witness ==
  /\ HandledAnswerRelay(last)
  /\ \E s \in last.sent : s.ok /\ s.msg = last.msg /\ s.to = peers[GM][last.msg.to]

\* a player handled an offer list
HandledOfferList(step) ==
  step.op = "message" /\ step.who \in Guests /\ step.msg.type = "p2p-offer-list"

\* the answers of g to the offer of o: being made, or on their way
AnswersOf(g, o) ==
  Cardinality({t \in tasks : t.kind = "p2pAnswer" /\ t.who = g /\ t.peer = o})
  + CountType(SeqFilter(chan[HostLink("inv1")] \o chan[HostLink("inv2")] \o chan[<<o, GM>>],
                        LAMBDA m : m.from = g /\ m.to = o), "p2p-answer")

\* C22: a player that receives an offer-list entry for its own id or for an
\* id already in its directory creates no link and no answer for it and
\* sends nothing; after the list has been handled, handling it again would
\* find every entry already linked; a directory entry once made stays, so
\* each offering participant gets at most one answer from the player.
C22_OfferListIdempotent ==
  /\ [][HandledOfferList(last')
          => LET p == last'.who
                 ids == {last'.msg.offers[i][1] : i \in DOMAIN last'.msg.offers}
             IN /\ last'.sent = {}
                /\ \A o \in ids :
                     (o = p \/ peers[p][o] # NoLink)
                       => /\ peers'[p][o] = peers[p][o]
                          /\ links'[<<p, o>>] = links[<<p, o>>]
                          /\ {t \in tasks' : t.who = p /\ t.peer = o}
                               = {t \in tasks : t.who = p /\ t.peer = o}
                /\ \A o \in ids : o = p \/ peers'[p][o] # NoLink
                /\ \A k \in Keys \ ids : peers'[p][k] = peers[p][k]]_vars
  /\ [][\A g, o \in Guests :
          /\ peers[g][o] # NoLink => peers'[g][o] = peers[g][o]
          /\ AnswersOf(g, o) < AnswersOf(g, o)' => peers[g][o] = NoLink]_vars
  /\ [](\A g, o \in Guests : AnswersOf(g, o) <= 1)

\* a list naming a player whose offer was already answered was handled
C22_Witness ==
  /\ HandledOfferList(last)
  /\ \E i \in DOMAIN last.msg.offers :
       LET o == last.msg.offers[i][1] IN
       /\ o \in Guests \ {last.who}
       /\ peers[last.who][o] # NoLink
       /\ links[<<last.who, o>>].sig = "stable"

\* participant p has a step of the given kind waiting for candidate gathering
Gathering(kind, p) == \E t \in tasks : t.kind = kind /\ t.who = p

\* C23: no step that waits for candidate gathering waits forever: the GM's
\* invite creation, a player's invite acceptance, a player's offer
\* generation and a player's offer acceptance each come to an end.
C23_GatheringEnds ==
  /\ Gathering("createInvite", GM) ~> ~Gathering("createInvite", GM)
  /\ \A g \in Guests :
       /\ Gathering("processInvite", g) ~> ~Gathering("processInvite", g)
       /\ Gathering("p2pOffer", g) ~> ~Gathering("p2pOffer", g)
       /\ Gathering("p2pAnswer", g) ~> ~Gathering("p2pAnswer", g)

\* invite ids that have not been used yet (a new invite draws a new id)
FreshInvites == {inv \in InviteIds : links[HostLink(inv)].sig = "none"}

\* C24: when invite creation fails, its invite id is no longer a key of the
\* GM's directory, no invite payload exists for it, the rest of the
\* directory is untouched and an invite with a new id can be created; when
\* a player's invite acceptance or offer acceptance fails, the player's
\* directory no longer holds the link it had stored for that participant.
C24_FailureReleasesLink ==
  /\ [][/\ last'.op = "createInviteError"
            => LET inv == last'.msg.inviteId IN
               /\ peers[GM][inv] = HostLink(inv)
               /\ peers'[GM][inv] = NoLink
               /\ \A k \in Keys \ {inv} : peers'[GM][k] = peers[GM][k]
               /\ \A payload \in invites' : payload.inviteId # inv
               /\ \A t \in tasks' : t.inviteId # inv
        /\ last'.op \in {"processInviteError", "p2pAnswerError"}
            => LET p == last'.who
                   k == last'.peer
               IN /\ peers[p][k] = <<p, k>>
                  /\ peers'[p][k] = NoLink
                  /\ \A j \in Keys \ {k} : peers'[p][j] = peers[p][j]]_vars
  /\ [](last.op = "createInviteError"
          => \A inv \in FreshInvites : ENABLED CreateInvite(inv))

\* the first invite failed and was discarded, a second one was created
C24_Witness ==
  \E inv, other \in InviteIds :
    /\ inv # other
    /\ peers[GM][inv] = NoLink /\ links[HostLink(inv)].sig = "new"
    /\ ~(\E t \in tasks : t.inviteId = inv)
    /\ \E payload \in invites : payload.inviteId = other

\* the queue of link l after the sends of the step: the message is appended
\* where a send of the step went through to l, nothing is added elsewhere
QueuedBy(sent, lk, l) ==
  {s \in sent : s.ok /\ lk[s.to].remote = l}

\* C25: a send on a link whose channel is not open puts nothing in any
\* queue and changes no state; in a broadcast it fails for that link only:
\* every link of the directory with an open channel gets the message and
\* the sender applies the event to its own document.
C25_ClosedChannelDropsOnly ==
  [][last'.op \in {"addNpc", "sendTokenMoveRequest", "message"}
       => /\ \A s \in last'.sent : s.ok <=> links[s.to].chan = "open"
          /\ \A l \in {x \in LinkIds : Owner(x) # last'.who} :
               LET hits == QueuedBy(last'.sent, links, l) IN
               IF hits = {} THEN chan'[l] = chan[l]
               ELSE \E s \in hits : hits = {s} /\ chan'[l] = Append(chan[l], WireCopy(s.msg))
          /\ last'.op = "addNpc"
               => /\ \A k \in Keys : peers[GM][k] # NoLink
                       => \E s \in last'.sent : s.to = peers[GM][k] /\ s.msg = last'.event
                  /\ layers'[GM] = handleEvent(layers[GM], last'.event)
          /\ (last'.op = "sendTokenMoveRequest" /\ \A s \in last'.sent : ~s.ok)
               => UNCHANGED <<sessionVars, docVars, netVars>>]_vars

\* the GM added a token while one link of its directory was open and the
\* other was not: the open one got the event
C25_Witness ==
  /\ last.op = "addNpc"
  /\ \E s1, s2 \in last.sent :
       /\ s1.ok /\ ~s2.ok
       /\ s1.msg = last.event
       /\ CountType(chan[links[s1.to].remote], "token-added") > 0
       /\ links[s2.to].chan # "open"
       /\ \A l \in LinkIds : Owner(l) \notin {GM, Owner(links[s1.to].remote)} => chan[l] = <<>>
  /\ hasToken(layers[GM], last.event.layerId, last.event.tokenData.id)

\* the types _handleMessage has a case for
HandledTypes ==
  StateEventTypes \cup RequestTypes \cup
  {"p2p-offer", "request-p2p-offer", "p2p-offer-list", "p2p-answer"}

\* the message type is not one the role r handles
InvalidForRole(r, type) ==
  \/ r = "player" /\ type \in RequestTypes \cup {"p2p-offer"}
  \/ r = "gm" /\ type \in {"request-p2p-offer", "p2p-offer-list"}
  \/ type \notin HandledTypes

\* C26: a message whose type is not valid for the receiver's role (a request
\* or an offer at a player, a request for an offer or an offer list at the
\* GM, an unknown type) leaves the receiver's directory, the offer pool and
\* the receiver's document unchanged, and nothing is sent in response
C26_InvalidForRoleIgnored ==
  [][(last'.op = "message" /\ InvalidForRole(role[last'.who], last'.msg.type))
       => /\ peers'[last'.who] = peers[last'.who]
          /\ p2pOffers' = p2pOffers
          /\ layers'[last'.who] = layers[last'.who]
          /\ last'.sent = {}]_vars

\* the operations in which a player sends a request, an offer or an answer
GuestSendOps ==
  {"sendTokenMoveRequest", "sendClaimTokenRequest", "sendUnclaimTokenRequest",
   "sendTokenColorChangeRequest", "p2pOfferDone", "p2pAnswerDone"}

\* C27: every request, offer and answer-for-relay that a player sends goes
\* out on the player's link to the GM and reaches no other queue than the
\* GM's end of that link; a player with no link to the GM sends nothing
C27_GuestSendsOnlyToHost ==
  [][role[last'.who] = "player"
       => LET g == last'.who
              hostLink == peers[g][GM]
          IN /\ \A s \in last'.sent :
                  s.msg.type \in RequestTypes \cup {"p2p-offer", "p2p-answer"}
                    => s.to = hostLink /\ hostLink = <<g, GM>>
             /\ last'.op \in GuestSendOps
                  => /\ hostLink = NoLink => (last'.sent = {} /\ chan' = chan)
                     /\ hostLink # NoLink => Cardinality(last'.sent) = 1
                     /\ \A l \in LinkIds :
                          (hostLink = NoLink \/ l # links[hostLink].remote)
                            => chan'[l] = chan[l]]_vars

\* a player whose directory holds a link to the other player has sent a
\* request, which went out on its link to the GM and was queued at the GM
C27_Witness ==
  /\ last.op = "sendClaimTokenRequest"
  /\ \E g \in Guests, o \in Guests :
       /\ g # o /\ last.who = g
       /\ peers[g][o] # NoLink
       /\ \E s \in last.sent : last.sent = {s} /\ s.to = <<g, GM>> /\ s.ok
       /\ CountType(chan[links[<<g, GM>>].remote], "claim-token-request") > 0

\* the last step was updateDistanceBasedAudio on a board where the local
\* participant and player g2 own a token, with g2's maximum at 1
GainCase ==
  /\ last.op = "updateDistanceBasedAudio"
  /\ findTokenForPeer(layers[last.who], last.who) # NoToken
  /\ findTokenForPeer(layers[last.who], "g2") # NoToken
  /\ maxVolumeOf(last.peerVolumes, "g2") = One

\* squared distance between the two tokens
GainDistanceSq ==
  distanceSq(findTokenForPeer(layers[last.who], last.who),
             findTokenForPeer(layers[last.who], "g2"))

\* squared distances from the origin of the positions explored
AudioDistancesSq == {pt[1] * pt[1] + pt[2] * pt[2] : pt \in AudioPositions}

\* the volume at distance 40 is 1, at distance 200 it lies strictly between
\* the floor and 1, and no larger distance gives a larger volume
GainShape ==
  /\ GainDistanceSq = 40 * 40 => last.volume["g2"] = One
  /\ GainDistanceSq = 200 * 200
       => RLess(minVolume, last.volume["g2"]) /\ RLess(last.volume["g2"], One)
  /\ \A sq \in AudioDistancesSq :
       sq >= GainDistanceSq => RLeq(finalVolume(sq, One), last.volume["g2"])

\* C28 as stated: with userMax = 1 and both participants owning a token, the
\* volume at distance 40 is 1, at distance 1200 it is 0, at distance 200 it
\* is strictly between the floor 0.05 and 1, and it is non-increasing
C28_GainBoundaries ==
  GainCase => GainShape /\ (GainDistanceSq = 1200 * 1200 => last.volume["g2"] = Zero)

\* C28 amended: as above, but the volume at distance 1200 is the floor 0.05
C28_GainBoundariesFloor ==
  GainCase => GainShape /\ (GainDistanceSq >= 1200 * 1200 => last.volume["g2"] = minVolume)

\* the volume was computed for two tokens 1200 apart
C28_Witness == GainCase /\ GainDistanceSq = 1200 * 1200

\* C29: when the local participant owns no token, or the remote participant
\* owns none, the remote participant's volume is the user-set maximum for
\* that participant (1 when never set), whatever the positions are
C29_NoTokenGivesUserMax ==
  last.op = "updateDistanceBasedAudio"
    => \A peerId \in AudioPeers :
         (\/ findTokenForPeer(layers[last.who], last.who) = NoToken
          \/ findTokenForPeer(layers[last.who], peerId) = NoToken)
           => /\ last.volume[peerId] = maxVolumeOf(last.peerVolumes, peerId)
              /\ last.peerVolumes[peerId] = NoVolume => last.volume[peerId] = One

\* the volumes were computed on a board where player g2 owns a token far
\* away and the local participant owns none, with g2's slider set to 1/2
C29_Witness ==
  /\ last.op = "updateDistanceBasedAudio"
  /\ findTokenForPeer(layers[last.who], last.who) = NoToken
  /\ findTokenForPeer(layers[last.who], "g2") # NoToken
  /\ findTokenForPeer(layers[last.who], "g2").x = 1240
  /\ last.peerVolumes["g2"] = Rat(1, 2)
  /\ last.volume["g2"] = Rat(1, 2)

\* the last step handled a relayed answer on a player
HandledRelayedAnswer ==
  /\ last.op = "message"
  /\ role[last.who] = "player"
  /\ last.msg.type = "p2p-answer"

\* C30: when a relayed answer from F arrives at a player, the link that made
\* the player's offer still exists, and the link the player applies the
\* answer to (its directory entry for F, if any) is one on which the player
\* is the initiator and that has no answer yet - never a link it created as
\* responder to an offer
C30_AnswerOnOfferingLink ==
  [][HandledRelayedAnswer'
       => LET g == last'.who
              p2pManager == peers[g][last'.msg.from]
          IN /\ links[<<g, Template>>].sig = "have-local-offer"
             /\ p2pManager # NoLink
                  => /\ links[p2pManager].sig = "have-local-offer"
                     /\ links'[p2pManager].sig = "stable"
                     /\ links'[p2pManager].remote = last'.msg.answer.link]_vars

\* C31: the GM's document changes only by applying an event through the
\* reducer; in particular, when a drag on the GM ends without a move being
\* committed (a click, or a release of the right button) the dragged token is
\* where it was when the drag began
C31_DocumentChangesByEventsOnly ==
  [][/\ layers'[GM] # layers[GM]
          => last'.event # NoMsg /\ layers'[GM] = handleEvent(layers[GM], last'.event)
     /\ (last'.op = "mouseUp" /\ last'.who = GM /\ drag[GM].live)
          => LET f == findToken(layers'[GM], drag[GM].layerId, drag[GM].tokenId)
             IN f # <<0, 0>>
                  => /\ layers'[GM][f[1]].tokens[f[2]].x = drag[GM].x
                     /\ layers'[GM][f[1]].tokens[f[2]].y = drag[GM].y]_vars

\* the last step was ondatachannelopen on the GM for a player's link
OpenedForGuest ==
  /\ last.op = "datachannelopen"
  /\ last.who = GM
  /\ last.event.type = "game-state-update"

\* the GM's link on which the last step happened
OpenedLink == peers[GM][last.peer]

\* C32: when a player's channel opens at the GM nothing has been sent on that
\* link before; the GM then queues on it the full game state first, a copy
\* of its layers at that moment, and the offer list and the request for an
\* offer after it. A player that applies a full game state has exactly the
\* layers of the message, whatever it had before.
C32_FullSyncFirst ==
  [][/\ OpenedForGuest'
          => LET l == OpenedLink'
                 r == links'[l].remote
             IN /\ l # NoLink /\ links[l].chan # "open"
                /\ chan[r] = <<>>
                /\ Len(chan'[r]) >= 2
                /\ chan'[r][1] = WireCopy(GameStateUpdate(layers'[GM]))
                /\ \A i \in 2..Len(chan'[r]) :
                     chan'[r][i].type \in {"p2p-offer-list", "request-p2p-offer"}
                /\ chan'[r][Len(chan'[r])].type = "request-p2p-offer"
     /\ \A l \in LinkIds :
          (Owner(l) = GM /\ links[l].chan # "open" /\ links[l].remote # NoLink
             /\ links'[l].chan # "open")
            => chan'[links[l].remote] = <<>>
     /\ (last'.op = "message" /\ role[last'.who] = "player"
           /\ last'.msg.type = "game-state-update")
          => layers'[last'.who] = last'.msg.layers]_vars

\* a player has applied a full game state that holds a token added by the
\* GM, and the other player has joined
C32_Witness ==
  /\ last.op = "message" /\ role[last.who] = "player"
  /\ last.msg.type = "game-state-update"
  /\ hasToken(last.msg.layers, PlayerLayerId, "token_n1")
  /\ layers[last.who] = last.msg.layers
  /\ \E o \in Guests : o # last.who /\ Joined(o)

\* C33: when a player's channel opens at the GM and the GM's document has a
\* layer named 'Player Layer', the document and the full game state that is
\* broadcast hold in that layer a token token_<player> owned by the player
C33_PlayerTokenOnOpen ==
  [][OpenedForGuest'
       => \A i \in DOMAIN layers[GM] :
            layers[GM][i].name = "Player Layer"
              => \E j \in DOMAIN layers'[GM][i].tokens :
                   /\ layers'[GM][i].tokens[j].id = PlayerTokenId(last'.peer)
                   /\ layers'[GM][i].tokens[j].peerId = last'.peer
                   /\ hasToken(last'.event.layers, layers[GM][i].id,
                               PlayerTokenId(last'.peer))]_vars

\* C34: every participant that has an offer in the GM's pool has an entry in
\* the GM's directory
C34_PooledOfferHasLink ==
  \A q \in Participants : p2pOffers[q] # NoDesc => peers[GM][q] # NoLink

\* C35: a terminal state reported by link l removes from the directory only
\* an entry that maps to l; when the entry under the participant's id maps to
\* another (newer) link the directory is unchanged and the GM cleans up
\* neither the participant's tokens nor its pooled offer
C35_TerminalStateRemovesOwnEntry ==
  [][last'.op = "connectionstatechange"
       => \A l \in LinkIds :
            (Owner(l) = last'.who /\ links'[l].conn # links[l].conn)
              => LET p == last'.who
                     peerId == last'.peer
                 IN /\ \A k \in Keys \ {peerId} : peers'[p][k] = peers[p][k]
                    /\ IF peers[p][peerId] = l
                       THEN peers'[p][peerId] = NoLink
                       ELSE /\ peers'[p][peerId] = peers[p][peerId]
                            /\ p2pOffers' = p2pOffers
                            /\ layers'[p] = layers[p]
                            /\ last'.sent = {}]_vars

\* player B has handled an offer list that held the offer of player A: its
\* directory has the link it made for that offer
ReceivedOffer(A, B) == peers[B][A] # NoLink /\ links[peers[B][A]].handler = A

\* C36: in a run without failures, once players A and B are both connected
\* to the GM, B eventually receives A's offer, whichever of B's channel
\* opening and A's offer reaches the GM first
C36_OfferReachesEveryGuest ==
  \A A \in Guests, B \in Guests :
    A # B => ((Joined(A) /\ Joined(B)) ~> ReceivedOffer(A, B))

\* a player has just handled the offer list with the other player's offer
C36_Witness ==
  /\ HandledOfferList(last)
  /\ \E A \in Guests :
       /\ A # last.who
       /\ Joined(A) /\ Joined(last.who)
       /\ \E i \in DOMAIN last.msg.offers : last.msg.offers[i][1] = A
       /\ ReceivedOffer(A, last.who)

\* C37: when the GM handles a claim-token-request for a token that is owned
\* by a participant other than the requester, the token keeps its owner
C37_ClaimKeepsOtherOwner ==
  [][HandledRequest(last', {"claim-token-request"})
       => LET owner == OwnerOf(layers[GM], last'.msg.layerId, last'.msg.tokenId)
          IN (owner # Null /\ owner # last'.peer)
               => OwnerOf(layers'[GM], last'.msg.layerId, last'.msg.tokenId) = owner]_vars

\* the (owner, x, y) of the tokens on the board of p owned by p or by a
\* participant p has a link to
OwnedPlaces(board, dir, p) ==
  {<<board[i].tokens[j].peerId, board[i].tokens[j].x, board[i].tokens[j].y>> :
     <<i, j>> \in {ij \in (DOMAIN board) \X (1..4) :
                    /\ ij[2] \in DOMAIN board[ij[1]].tokens
                    /\ LET owner == board[ij[1]].tokens[ij[2]].peerId
                       IN owner = p \/ (owner \in Keys /\ dir[owner] # NoLink)}}

\* every audio element of p has the volume computed from p's document and
\* p's user-set maxima
VolumesCurrent(a, board, p) == a = updateDistanceBasedAudio(board, p, a)

\* C38: after an applied event that changes the position or the owner of a
\* token owned by the local participant or by a linked participant, and after
\* a change of a user-set maximum, the volume of every audio element equals
\* the gain computed from the current document and the current maxima
C38_VolumeFollowsDocument ==
  [][\A p \in Participants :
       /\ last'.who = p
       /\ \/ /\ last'.event.type \in StateEventTypes
             /\ OwnedPlaces(layers[p], peers[p], p) # OwnedPlaces(layers'[p], peers'[p], p)
          \/ last'.op = "volumeSliderInput"
       => VolumesCurrent(audio'[p], layers'[p], p)]_vars

\* C39: the user-set maximum is a ceiling: whatever the distance and whatever
\* the maximum set with the slider (0 to 1), the volume given to a
\* participant's audio element never exceeds that participant's maximum
C39_UserMaxIsCeiling ==
  last.op = "updateDistanceBasedAudio" =>
    \A peerId \in AudioPeers :
      RLeq(last.volume[peerId], maxVolumeOf(last.peerVolumes, peerId))
====
